---- MODULE Spec2Model ----
(***************************************************************************)
(* bottle-launch: the bottle lifecycle engine.                             *)
(*                                                                         *)
(*   - the mount sequence      udisksMountBottle, udisksMountBottleFIDO2   *)
(*   - the unmount sequence    udisksUnmountBottle                         *)
(*   - the config store        savePermissionsAtomic                       *)
(*   - the lifecycle registry  SetCurrentMountInfo, performCleanup, and    *)
(*                             the TUI and CLI control logic around them   *)
(*                                                                         *)
(* Every external tool invocation is one step whose result (exit status    *)
(* and output text) is chosen by the environment.  Tool output is a        *)
(* sequence of fragments; strings.Contains and the regular expressions of  *)
(* the source are computed on those fragments.                             *)
(***************************************************************************)
EXTENDS Integers, Sequences, FiniteSets, TLC

VARIABLES
    kernel,     \* kernel/daemon truth for the bottle file: loop, crypt, mount
    mt,         \* the mount sequence of each task (goroutine)
    um,         \* the unmount sequence of each thread
    fs,         \* the config directory: what readers see and what is on disk
    sv,         \* the config save in progress
    cf,         \* the Permissions value in memory and the config file's text
    tui,        \* the TUI model
    reg,        \* the process-wide registry: mount info, child, mutex, once
    child,      \* the sandboxed application's process
    th          \* the threads of the process: main, signal goroutine

(***************************************************************************)
(* Bounds                                                                  *)
(***************************************************************************)
\* longest diagnostic text, in fragments
MaxDiagLen == 2
\* invocations of the mount sequence by one task
MaxInvocations == 2

(***************************************************************************)
(* Text                                                                    *)
(***************************************************************************)
WrongKeyPhrases == {"Failed to activate device", "No key available", "passphrase"}

StalePhrase == "Error looking up object for device"

\* fragments a failing tool may print; "Passphrase" differs from "passphrase"
\* in case only
DiagWords == WrongKeyPhrases \cup {StalePhrase, "Passphrase", "Not authorized"}

RECURSIVE SeqsUpTo(_, _)
SeqsUpTo(S, n) ==
    IF n = 0 THEN {<< >>}
    ELSE LET shorter == SeqsUpTo(S, n - 1)
         IN  shorter \cup {Append(s, x) : s \in {q \in shorter : Len(q) = n - 1}, x \in S}

DiagTexts == SeqsUpTo(DiagWords, MaxDiagLen)

\* strings.Contains(text, phrase)
Contains(text, phrase) == \E i \in 1..Len(text) : text[i] = phrase

LoopDevs == {"/dev/loop0"}
DmDevs == {"/dev/dm-0", "/dev/dm-1"}
MountPaths == {"/run/media/u/b"}

\* the first fragment of out that is in S, "" when there is none
\* (regexp.FindString)
FindFirst(out, S) ==
    IF \E i \in 1..Len(out) : out[i] \in S
    THEN out[CHOOSE i \in 1..Len(out) :
                 /\ out[i] \in S
                 /\ \A j \in 1..(i - 1) : out[j] \notin S]
    ELSE ""

\* regexp `/dev/loop\d+` on the loop-setup output
ParseLoopDevice(out) == FindFirst(out, LoopDevs)

\* regexp `/dev/dm-\d+` on the unlock output
ParseCleartextDevice(out) == FindFirst(out, DmDevs)

\* a printed path: the path itself, or the path followed by the sentence's "."
DottedPaths == {"/run/media/u/b."}
PathFragments == MountPaths \cup DottedPaths

\* strings.TrimSuffix(s, ".")
TrimSuffixDot(f) == IF f = "/run/media/u/b." THEN "/run/media/u/b" ELSE f

\* regexp `at (/\S+)` on the mount output, then TrimSuffix ".": the path
\* fragment that follows the first "at" that has one, "" when none has
ParseMountPoint(out) ==
    LET hits == {i \in 1..(Len(out) - 1) : out[i] = "at" /\ out[i + 1] \in PathFragments}
    IN  IF hits = {} THEN ""
        ELSE TrimSuffixDot(out[(CHOOSE i \in hits : \A j \in hits : i <= j) + 1])

(***************************************************************************)
(* Kernel state and the device locator                                     *)
(***************************************************************************)
NoKernel == [loop |-> "", crypt |-> "", mount |-> ""]

\* the states a bottle file can be found in: the dependency chain
KernelStates ==
    {NoKernel}
    \cup {[loop |-> l, crypt |-> "", mount |-> ""] : l \in LoopDevs}
    \cup {[loop |-> l, crypt |-> c, mount |-> ""] : l \in LoopDevs, c \in DmDevs}
    \cup {[loop |-> l, crypt |-> c, mount |-> p] : l \in LoopDevs, c \in DmDevs, p \in MountPaths}

findLoopForFile(k) == k.loop

findCleartextForLoop(k, loopDev) == IF loopDev # "" /\ loopDev = k.loop THEN k.crypt ELSE ""

findMountForDevice(k, device) == IF device # "" /\ device = k.crypt THEN k.mount ELSE ""

\* lines 27-40 of the mount sequence: the nested probes
Probe(k) ==
    LET l == findLoopForFile(k)
        c == IF l # "" THEN findCleartextForLoop(k, l) ELSE ""
        p == IF c # "" THEN findMountForDevice(k, c) ELSE ""
    IN  [LoopDevice |-> l, CleartextDevice |-> c, MountPoint |-> p, BottlePath |-> "/abs/b.bottle"]

(***************************************************************************)
(* External commands: the results the environment may give                 *)
(***************************************************************************)
\* one diagnostic of each kind the mount sequence tells apart: fatal, wrong
\* key, stale mapping
ProcessDiagTexts == {<<"Not authorized">>, <<"No key available">>, <<StalePhrase>>}

\* a sequence run by itself is given every text, one run inside the whole
\* process one text of each kind
Failures(k) ==
    {[ok |-> FALSE, out |-> d, k |-> k] :
        d \in IF th.main = "off" THEN DiagTexts ELSE ProcessDiagTexts}

\* udisksctl loop-setup -f <file>
LoopSetupResults(k) ==
    Failures(k) \cup
    (IF k.loop = ""
     THEN UNION {{[ok |-> TRUE, out |-> o, k |-> [k EXCEPT !.loop = l]] :
                     o \in {<<"Mapped file as", l>>, <<"Mapped file">>}} : l \in LoopDevs}
     ELSE {})

\* udisksctl unlock -b <loop>
UnlockResults(k, loopDev) ==
    Failures(k) \cup
    (IF loopDev # "" /\ k.loop = loopDev /\ k.crypt = ""
     THEN UNION {{[ok |-> TRUE, out |-> o, k |-> [k EXCEPT !.crypt = c]] :
                     o \in {<<"Unlocked", loopDev, "as", c>>, <<"Unlocked">>}} : c \in DmDevs}
     ELSE {})

\* udisksctl mount -b <dm> --options nodev,nosuid,noexec
MountResults(k, dev) ==
    Failures(k) \cup
    (IF dev # "" /\ k.crypt = dev /\ k.mount = ""
     THEN {[ok |-> TRUE, out |-> o, k |-> [k EXCEPT !.mount = TrimSuffixDot(o[Len(o)])]] :
               o \in {<<"Mounted", dev, "at", f>> : f \in PathFragments}}
          \cup {[ok |-> TRUE, out |-> <<"Mounted", dev>>, k |-> [k EXCEPT !.mount = p]] :
               p \in MountPaths}
     ELSE {})

\* udisksctl lock -b <loop>
LockResults(k, loopDev) ==
    Failures(k) \cup
    (IF loopDev # "" /\ k.loop = loopDev /\ k.crypt # "" /\ k.mount = ""
     THEN {[ok |-> TRUE, out |-> <<"Locked", loopDev>>, k |-> [k EXCEPT !.crypt = ""]]}
     ELSE {})

(***************************************************************************)
(* MountInfo, errors                                                       *)
(***************************************************************************)
BottlePath == "/abs/b.bottle"

EmptyInfo == [LoopDevice |-> "", CleartextDevice |-> "", MountPoint |-> "", BottlePath |-> ""]

\* type mountError struct { op, msg }; id tells the package-level value
\* errWrongPassword (compared by pointer) from a freshly built error
MountError(op, msg) == [op |-> op, msg |-> msg, id |-> "mountError"]

errWrongPassword == [op |-> "unlock", msg |-> <<"wrong password">>, id |-> "errWrongPassword"]

\* an error of the standard library (filepath.Abs, os.CreateTemp)
OsError == [op |-> "", msg |-> <<"os error">>, id |-> "os"]

NoRet == [kind |-> "none"]
RetOk(info) == [kind |-> "ok", info |-> info]
RetErr(e) == [kind |-> "err", err |-> e]
\* a nil error
RetNil == [kind |-> "ok"]

UnlockFailurePassword_TwoPhrases(outStr) ==
    IF \/ Contains(outStr, "Failed to activate device")
       \/ Contains(outStr, "passphrase")
    THEN errWrongPassword
    ELSE MountError("unlock", outStr)

\* udisksMountBottle: the error of a failed unlock
UnlockFailurePassword(outStr) ==
    IF \/ Contains(outStr, "Failed to activate device")
       \/ Contains(outStr, "No key available")
       \/ Contains(outStr, "passphrase")
    THEN errWrongPassword
    ELSE MountError("unlock", outStr)

\* udisksMountBottleFIDO2: the error of a failed unlock
UnlockFailureFIDO2(outStr) ==
    IF \/ Contains(outStr, "Failed to activate device")
       \/ Contains(outStr, "No key available")
       \/ Contains(outStr, "passphrase")
    THEN MountError("unlock", <<"wrong YubiKey - use the key that created this bottle">>)
    ELSE MountError("unlock", outStr)

UnlockFailure(variant, outStr) ==
    IF variant = "password" THEN UnlockFailurePassword(outStr) ELSE UnlockFailureFIDO2(outStr)

\* mountBottleCmd: the message a finished password mount delivers
MountBottleMsg(ret) ==
    IF ret.kind = "err"
    THEN [type |-> "mountFailedMsg", err |-> ret.err, wrongPassword |-> (ret.err = errWrongPassword)]
    ELSE [type |-> "mountSuccessMsg", info |-> ret.info]

(***************************************************************************)
(* The mount sequence: udisksMountBottle and udisksMountBottleFIDO2        *)
(***************************************************************************)
MountTasks == {"m1"}

Variants == {"password", "fido2"}
Passwords == {"", "pw"}

NoFail == [at |-> "none", out |-> << >>]

MtIdle ==
    [pc |-> "idle", variant |-> "password", password |-> "", info |-> EmptyInfo,
     ret |-> NoRet, calls |-> << >>, n |-> 0, keyfiles |-> 0,
     \* history of this invocation: what the probes found, the failed unlock,
     \* whether the first mount failed stale, the retried mount
     probe0 |-> EmptyInfo, ufail |-> NoFail, stale1 |-> FALSE, re |-> NoFail,
     \* history: the previous invocation's successful return and its calls
     prevOk |-> NoRet, prevCalls |-> << >>]

\* the function returns: deferred cleanups remove the key files
Returned(task, ret) == [task EXCEPT !.pc = "done", !.ret = ret, !.keyfiles = 0]

AfterUnlock(info) == IF info.MountPoint = "" THEN "mount" ELSE "return"
AfterLoop(info) == IF info.CleartextDevice = "" THEN "unlock" ELSE AfterUnlock(info)
AfterProbe(info) == IF info.LoopDevice = "" THEN "loopsetup" ELSE AfterLoop(info)

Goto(task, pc) == IF pc = "return" THEN Returned(task, RetOk(task.info)) ELSE [task EXCEPT !.pc = pc]

Called(task, op) == [task EXCEPT !.calls = Append(@, op)]

\* the key argument of the unlock command
UnlockForm(task) ==
    IF task.variant = "fido2" THEN "unlock --key-file <temp>"
    ELSE IF task.password # "" THEN "unlock --key-file /dev/stdin"
    ELSE "unlock"

\* "Check if already mounted": the complete chain
AlreadyMounted(info) ==
    info.LoopDevice # "" /\ info.CleartextDevice # "" /\ info.MountPoint # ""

AlreadyMountedReturn_Fresh(task, info) ==
    Returned(task, RetOk([EmptyInfo EXCEPT !.BottlePath = info.BottlePath]))

\* "Already fully mounted": return info, nil
AlreadyMountedReturn(task, info) == Returned(task, RetOk(info))

\* entry: filepath.Abs, the probes, the already-mounted return
MountBegin(t) ==
    /\ mt[t].pc \in {"idle", "done"}
    /\ mt[t].n < MaxInvocations
    /\ \E v \in Variants, pw \in Passwords, absOk \in BOOLEAN :
        /\ v = "fido2" => pw = ""
        /\ LET info == Probe(kernel)
               task == [mt[t] EXCEPT !.variant = v, !.password = pw, !.n = @ + 1,
                                     !.prevOk = IF mt[t].ret.kind = "ok" THEN mt[t].ret ELSE NoRet,
                                     !.prevCalls = IF mt[t].ret.kind = "ok" THEN mt[t].calls ELSE << >>,
                                     !.calls = << >>, !.ret = NoRet,
                                     !.ufail = NoFail, !.stale1 = FALSE, !.re = NoFail,
                                     !.info = IF absOk THEN info ELSE EmptyInfo,
                                     !.probe0 = IF absOk THEN info ELSE EmptyInfo]
           IN  mt' = [mt EXCEPT ![t] =
                        IF ~absOk THEN Returned(task, RetErr(OsError))
                        ELSE IF AlreadyMounted(info) THEN AlreadyMountedReturn(task, info)
                        ELSE Goto(task, AfterProbe(info))]
    /\ UNCHANGED kernel

\* "Setup loop device if needed"
LoopSetup(t) ==
    /\ mt[t].pc = "loopsetup"
    /\ \E r \in LoopSetupResults(kernel) :
        /\ kernel' = r.k
        /\ LET task == Called(mt[t], "loop-setup")
               match == ParseLoopDevice(r.out)
           IN  mt' = [mt EXCEPT ![t] =
                        IF ~r.ok THEN Returned(task, RetErr(MountError("loop-setup", r.out)))
                        ELSE IF match = ""
                        THEN Returned(task, RetErr(MountError("loop-setup", <<"could not parse loop device">>)))
                        ELSE LET t2 == [task EXCEPT !.info.LoopDevice = match]
                             IN  Goto(t2, AfterLoop(t2.info))]

\* "Unlock if needed"
Unlock(t) ==
    /\ mt[t].pc = "unlock"
    /\ \E tmpOk \in BOOLEAN :
        /\ mt[t].variant = "password" => tmpOk
        /\ IF ~tmpOk
           THEN /\ mt' = [mt EXCEPT ![t] = Returned(mt[t], RetErr(OsError))]
                /\ UNCHANGED kernel
           ELSE \E r \in UnlockResults(kernel, mt[t].info.LoopDevice) :
                /\ kernel' = r.k
                /\ LET task == [Called(mt[t], UnlockForm(mt[t])) EXCEPT
                                    !.keyfiles = IF mt[t].variant = "fido2" THEN @ + 1 ELSE @]
                       match == ParseCleartextDevice(r.out)
                   IN  mt' = [mt EXCEPT ![t] =
                                IF ~r.ok THEN Returned([task EXCEPT !.ufail = [at |-> "unlock", out |-> r.out]],
                                                       RetErr(UnlockFailure(task.variant, r.out)))
                                ELSE IF match = ""
                                THEN Returned(task, RetErr(MountError("unlock", <<"could not parse cleartext device">>)))
                                ELSE LET t2 == [task EXCEPT !.info.CleartextDevice = match]
                                     IN  Goto(t2, AfterUnlock(t2.info))]

\* whether a failed mount starts the stale-mapping recovery
IsStaleMapping(outStr, info) == Contains(outStr, StalePhrase) /\ info.LoopDevice # ""

\* the tail of "Mount if needed": parse the mount point out of the output
MountParsed_Unchecked(task, out) ==
    Returned([task EXCEPT !.info.MountPoint = ParseMountPoint(out)],
             RetOk([task.info EXCEPT !.MountPoint = ParseMountPoint(out)]))
\* the mount output is parsed; len(match) < 2 is an error
MountParsed(task, out) ==
    LET match == ParseMountPoint(out)
    IN  IF match = ""
        THEN Returned(task, RetErr(MountError("mount", <<"could not parse mount point">>)))
        ELSE Returned([task EXCEPT !.info.MountPoint = match],
                      RetOk([task.info EXCEPT !.MountPoint = match]))

\* "Mount if needed": the first mount call
Mount(t) ==
    /\ mt[t].pc = "mount"
    /\ \E r \in MountResults(kernel, mt[t].info.CleartextDevice) :
        /\ kernel' = r.k
        /\ LET task == Called(mt[t], "mount")
           IN  mt' = [mt EXCEPT ![t] =
                        IF r.ok THEN MountParsed(task, r.out)
                        ELSE IF IsStaleMapping(r.out, task.info)
                        THEN [task EXCEPT !.pc = "relock", !.stale1 = TRUE]
                        ELSE Returned(task, RetErr(MountError("mount", r.out)))]

\* recovery: udisksctl lock, result ignored
ReLock(t) ==
    /\ mt[t].pc = "relock"
    /\ \E r \in LockResults(kernel, mt[t].info.LoopDevice) :
        /\ kernel' = r.k
        /\ mt' = [mt EXCEPT ![t] = [Called(mt[t], "lock") EXCEPT !.pc = "reunlock"]]

\* the error of a failed re-unlock
ReUnlockFailure(variant, outStr) == MountError("unlock", outStr)

\* recovery: unlock again
ReUnlock(t) ==
    /\ mt[t].pc = "reunlock"
    /\ \E tmpOk \in BOOLEAN :
        /\ mt[t].variant = "password" => tmpOk
        /\ IF ~tmpOk
           THEN /\ mt' = [mt EXCEPT ![t] = Returned(mt[t], RetErr(OsError))]
                /\ UNCHANGED kernel
           ELSE \E r \in UnlockResults(kernel, mt[t].info.LoopDevice) :
                /\ kernel' = r.k
                /\ LET task == [Called(mt[t], UnlockForm(mt[t])) EXCEPT
                                    !.keyfiles = IF mt[t].variant = "fido2" THEN @ + 1 ELSE @]
                       match == ParseCleartextDevice(r.out)
                   IN  mt' = [mt EXCEPT ![t] =
                                IF ~r.ok THEN Returned([task EXCEPT !.ufail = [at |-> "reunlock", out |-> r.out]],
                                                       RetErr(ReUnlockFailure(task.variant, r.out)))
                                ELSE IF match = ""
                                THEN Returned(task, RetErr(MountError("unlock", <<"could not parse cleartext device">>)))
                                ELSE [task EXCEPT !.info.CleartextDevice = match, !.pc = "remount"]]

\* what follows a failed retried mount
AfterReMountFailure_Again(task, out3) ==
    IF IsStaleMapping(out3, task.info) THEN [task EXCEPT !.pc = "relock"]
    ELSE Returned(task, RetErr(MountError("mount", out3)))

AfterReMountFailure(task, out3) == Returned(task, RetErr(MountError("mount", out3)))

\* recovery: the retried mount
ReMount(t) ==
    /\ mt[t].pc = "remount"
    /\ \E r \in MountResults(kernel, mt[t].info.CleartextDevice) :
        /\ kernel' = r.k
        /\ LET task == [Called(mt[t], "mount") EXCEPT
                            !.re = [at |-> IF r.ok THEN "ok" ELSE "failed", out |-> r.out]]
           IN  mt' = [mt EXCEPT ![t] =
                        IF r.ok THEN MountParsed(task, r.out)
                        ELSE AfterReMountFailure(task, r.out)]

(***************************************************************************)
(* The unmount sequence: udisksUnmountBottle                               *)
(***************************************************************************)
UnmountRetryCount == 3

UmThreads == {"main", "sig"}

\* a *MountInfo
NilPtr == [nil |-> TRUE, v |-> EmptyInfo]
Ptr(info) == [nil |-> FALSE, v |-> info]

\* what the unmount-side tools print when they fail
UmDiagTexts == {<< >>, <<"target is busy">>, <<"Not authorized">>}

UmFailures(k) ==
    {[ok |-> FALSE, out |-> d, k |-> k] :
        d \in IF th.main = "off" THEN UmDiagTexts ELSE {<<"target is busy">>}}

\* sync -f <mount point>
SyncResults(k) == {[ok |-> b, out |-> << >>, k |-> k] : b \in BOOLEAN}

\* udisksctl unmount -b <dm> [--force]
UnmountResults(k, dev) ==
    UmFailures(k) \cup
    (IF dev # "" /\ k.crypt = dev /\ k.mount # ""
     THEN {[ok |-> TRUE, out |-> <<"Unmounted", dev>>, k |-> [k EXCEPT !.mount = ""]]}
     ELSE {})

\* udisksctl lock -b <loop>, as the unmount sequence sees it
UmLockResults(k, loopDev) ==
    UmFailures(k) \cup {r \in LockResults(k, loopDev) : r.ok}

\* udisksctl loop-delete -b <loop>
LoopDeleteResults(k, loopDev) ==
    UmFailures(k) \cup
    (IF loopDev # "" /\ k.loop = loopDev /\ k.crypt = ""
     THEN {[ok |-> TRUE, out |-> << >>, k |-> [k EXCEPT !.loop = ""]]}
     ELSE {})

UmIdle ==
    [pc |-> "idle", arg |-> NilPtr, ret |-> NoRet, calls |-> << >>,
     i |-> 0, sleeps |-> 0, out |-> << >>, syncFailed |-> FALSE,
     \* history: the unmount attempts and the lock attempts that failed
     ufails |-> 0, lfails |-> 0]

UmReturned(u, ret) == [u EXCEPT !.pc = "done", !.ret = ret]

UmAfterLock_NoDetach(info) == "return"
\* "Remove loop" follows the lock
UmAfterLock(info) == IF info.LoopDevice # "" THEN "loopdelete" ELSE "return"
UmAfterUnmount(info) == IF info.LoopDevice # "" THEN "lock" ELSE UmAfterLock(info)
UmAfterSync_Abort(info, syncOk) ==
    IF ~syncOk THEN "return"
    ELSE IF info.CleartextDevice # "" THEN "unmount" ELSE UmAfterUnmount(info)
\* the sync result is not looked at
UmAfterSync(info, syncOk) == IF info.CleartextDevice # "" THEN "unmount" ELSE UmAfterUnmount(info)
UmAfterEntry_Always(info) == "sync"
UmAfterEntry(info) == IF info.MountPoint # "" THEN "sync" ELSE UmAfterSync(info, TRUE)

UmGoto(u, pc) == IF pc = "return" THEN UmReturned(u, RetNil) ELSE [u EXCEPT !.pc = pc]

UmCalled(u, op) == [u EXCEPT !.calls = Append(@, op)]

UmAfterForceFailure_GoOn(u, out2) == UmGoto(u, UmAfterUnmount(u.arg.v))

\* err2 != nil: return &mountError{op: "unmount", ...}
UmAfterForceFailure(u, out2) ==
    UmReturned(u, RetErr(MountError("unmount", u.out \o <<"; force: ">> \o out2)))

LockAgain_OneMore(i) == i <= UnmountRetryCount

\* the loop condition i < UnmountRetryCount, after i attempts
LockAgain(i) == i < UnmountRetryCount

\* entry: the nil check
UnmountBegin(t, ptr) ==
    /\ um[t].pc = "idle"
    /\ LET u == [UmIdle EXCEPT !.arg = ptr]
       IN  um' = [um EXCEPT ![t] =
                    IF ptr.nil THEN UmReturned(u, RetNil) ELSE UmGoto(u, UmAfterEntry(ptr.v))]

\* "Sync filesystem": the error is dropped
UmSync(t) ==
    /\ um[t].pc = "sync"
    /\ \E r \in SyncResults(kernel) :
        /\ kernel' = r.k
        /\ um' = [um EXCEPT ![t] =
                    UmGoto([UmCalled(um[t], "sync") EXCEPT !.syncFailed = ~r.ok],
                           UmAfterSync(um[t].arg.v, r.ok))]

\* "Unmount with retry and force fallback": the first attempt
UmUnmount(t) ==
    /\ um[t].pc = "unmount"
    /\ \E r \in UnmountResults(kernel, um[t].arg.v.CleartextDevice) :
        /\ kernel' = r.k
        /\ LET u == UmCalled(um[t], "unmount")
           IN  um' = [um EXCEPT ![t] =
                        IF r.ok THEN UmGoto(u, UmAfterUnmount(u.arg.v))
                        ELSE [u EXCEPT !.pc = "forceunmount", !.out = r.out, !.ufails = 1]]

\* the --force attempt
UmForceUnmount(t) ==
    /\ um[t].pc = "forceunmount"
    /\ \E r \in UnmountResults(kernel, um[t].arg.v.CleartextDevice) :
        /\ kernel' = r.k
        /\ LET u == UmCalled(um[t], "unmount --force")
           IN  um' = [um EXCEPT ![t] =
                        IF r.ok THEN UmGoto(u, UmAfterUnmount(u.arg.v))
                        ELSE UmAfterForceFailure([u EXCEPT !.ufails = @ + 1], r.out)]

\* "Lock with retry": one turn of the loop
UmLock(t) ==
    /\ um[t].pc = "lock"
    /\ \E r \in UmLockResults(kernel, um[t].arg.v.LoopDevice) :
        /\ kernel' = r.k
        /\ LET u == [UmCalled(um[t], "lock") EXCEPT
                        !.sleeps = IF um[t].i > 0 THEN @ + 1 ELSE @,
                        !.i = @ + 1]
               f == [u EXCEPT !.lfails = @ + 1]
           IN  um' = [um EXCEPT ![t] =
                        IF r.ok THEN UmGoto(u, UmAfterLock(u.arg.v))
                        ELSE IF LockAgain(u.i) THEN f
                        ELSE UmReturned(f, RetErr(MountError("lock", r.out)))]

\* "Remove loop"
UmLoopDelete(t) ==
    /\ um[t].pc = "loopdelete"
    /\ \E r \in LoopDeleteResults(kernel, um[t].arg.v.LoopDevice) :
        /\ kernel' = r.k
        /\ LET u == UmCalled(um[t], "loop-delete")
           IN  um' = [um EXCEPT ![t] =
                        IF r.ok THEN UmReturned(u, RetNil)
                        ELSE UmReturned(u, RetErr(MountError("loop-delete", r.out)))]

(***************************************************************************)
(* The process: TUI model, registry, child, threads                        *)
(***************************************************************************)
Threads == UmThreads
Modes == {"tui", "cli"}

\* type model: the fields the bottle's life goes through.  h is the handler
\* the event loop is inside of, cmd the tea.Cmd returned and not yet run,
\* exec the tea.ExecProcess returned and not yet run, appMsg a pending
\* appFinishedMsg
\* fido2Devices, fido2DeviceSel, fido2Error: the YubiKey view's list, cursor
\* and whether an error is shown; enums the enumerate commands running,
\* nenum all that were started, unlocks the mountBottleFIDO2Cmd that were
\* dispatched, oldest first, running how many of them run
\* passwordInput is the text field's value, errMsg the text the password and
\* error views show
TuiIdle ==
    [state |-> "viewLaunchConfirm", mountInfo |-> NilPtr, loading |-> FALSE,
     h |-> "none", cmd |-> "none", exec |-> FALSE, appMsg |-> FALSE,
     fido2Devices |-> << >>, fido2DeviceSel |-> 0, fido2Error |-> FALSE,
     enums |-> 0, nenum |-> 0, unlocks |-> << >>, running |-> 0,
     passwordInput |-> "", errMsg |-> << >>,
     \* the YubiKey creation wizard.  A value is written as the number of
     \* the wizard run it comes from, 0 for "" and nil: fido2Name is
     \* fido2BottleName with fido2BottleSize, fido2CredID the credential ID
     \* with fido2Salt.  createForm is the form's state; run counts the
     \* wizard runs, flying holds the wizard's commands that are running,
     \* ncmd counts them, created lists the createBottleYubiKeyCmd dispatched
     fido2Step |-> 0, fido2Name |-> 0, fido2BottleID |-> 0, fido2CredID |-> 0,
     fido2Secret |-> 0, createForm |-> "nil", run |-> 0, flying |-> {}, ncmd |-> 0,
     created |-> << >>,
     \* the bottle the list's "enter" selected, with its config path; the
     \* loadAppsCmd that are running
     selectedBottle |-> "", configPath |-> "", apps |-> 0]

\* the globals: runs counts the entries into the function cleanupOnce guards
RegIdle ==
    [currentMountInfo |-> NilPtr, currentRunningCmd |-> "nil", mountMutex |-> "free",
     cleanupOnce |-> "fresh", runs |-> 0]

\* the sandboxed application: none, built (an exec.Cmd whose Process is
\* nil), running, exited; term and kill are the signals it was sent
ChildNone == [state |-> "none", term |-> FALSE, kill |-> FALSE]

\* main is the main goroutine's position, sig the signal goroutine's, sigch
\* the channel of capacity 1 (the signal in it, 0 when empty), recv the
\* handler's local sig, cl each thread's position in performCleanup,
\* info the local mountInfo of cmdRun, exit how the process ended and code
\* the argument of the handler's os.Exit, ours whether a mount sequence of
\* this process mounted the bottle, uminv whether udisksUnmountBottle was
\* called with a MountInfo since
ThOff ==
    [mode |-> "tui", main |-> "off", sig |-> "off", sigch |-> 0, recv |-> 0,
     cl |-> [t \in Threads |-> "idle"], info |-> NilPtr, exit |-> "none", code |-> 0,
     ours |-> FALSE, uminv |-> FALSE]

NoProcess == tui = TuiIdle /\ reg = RegIdle /\ child = ChildNone /\ th = ThOff

process == <<tui, reg, child, th>>

vars == <<kernel, mt, um, fs, sv, cf, tui, reg, child, th>>

(***************************************************************************)
(* Permissions: the value, IsFIDO2Bottle, the config file's text           *)
(***************************************************************************)
\* longest string field of a Permissions value, in characters
MaxStrLen == 2
\* most lines of a config file handed to loadPermissions
MaxFileLines == 2

\* a string is the sequence of its characters; a line of the config file is
\* the sequence of its tokens: a key word, "=", "#", " ", a character
DQ == "\""
BS == "\\"
Chars == {"a", DQ, BS}
Strings == SeqsUpTo(Chars, MaxStrLen)
\* the values a FIDO2 field takes
Ids == {<< >>, <<"a">>}

\* type Permissions struct
PermissionValues ==
    [Network : BOOLEAN, Audio : BOOLEAN, GPU : BOOLEAN, Wayland : BOOLEAN,
     X11 : BOOLEAN, Camera : BOOLEAN, Portals : BOOLEAN, LastApp : Strings,
     FIDO2BottleID : Ids, FIDO2CredentialID : Ids, FIDO2Salt : Ids,
     FIDO2DeviceHint : Ids]

defaultPermissions ==
    [Network |-> TRUE, Audio |-> TRUE, GPU |-> TRUE, Wayland |-> TRUE,
     X11 |-> TRUE, Camera |-> FALSE, Portals |-> FALSE, LastApp |-> << >>,
     FIDO2BottleID |-> << >>, FIDO2CredentialID |-> << >>, FIDO2Salt |-> << >>,
     FIDO2DeviceHint |-> << >>]

IsFIDO2Bottle_AnySet(perms) ==
    [isFIDO2 |-> perms.FIDO2BottleID # << >> \/ perms.FIDO2CredentialID # << >>
                    \/ perms.FIDO2Salt # << >>,
     err |-> "nil"]
\* all present: FIDO2; none present: password; partial: corrupted config
IsFIDO2Bottle(perms) ==
    LET hasBottleID == perms.FIDO2BottleID # << >>
        hasCredID == perms.FIDO2CredentialID # << >>
        hasSalt == perms.FIDO2Salt # << >>
    IN  IF hasBottleID /\ hasCredID /\ hasSalt
        THEN [isFIDO2 |-> TRUE, err |-> "nil"]
        ELSE IF ~hasBottleID /\ ~hasCredID /\ ~hasSalt
        THEN [isFIDO2 |-> FALSE, err |-> "nil"]
        ELSE [isFIDO2 |-> FALSE, err |-> "config corrupted"]

\* strconv.Quote: the double quote and the backslash are escaped
RECURSIVE Escape(_)
Escape(s) ==
    IF s = << >> THEN << >>
    ELSE (IF Head(s) \in {DQ, BS} THEN <<BS, Head(s)>> ELSE <<Head(s)>>) \o Escape(Tail(s))

Quote(s) == <<DQ>> \o Escape(s) \o <<DQ>>

boolToInt(b) == IF b THEN "1" ELSE "0"

\* the lines savePermissionsAtomic builds
FormatLines(p) ==
    << <<"PREF_NETWORK", "=", boolToInt(p.Network)>>,
       <<"PREF_AUDIO", "=", boolToInt(p.Audio)>>,
       <<"PREF_GPU", "=", boolToInt(p.GPU)>>,
       <<"PREF_WAYLAND", "=", boolToInt(p.Wayland)>>,
       <<"PREF_X11", "=", boolToInt(p.X11)>>,
       <<"PREF_CAMERA", "=", boolToInt(p.Camera)>>,
       <<"PREF_PORTALS", "=", boolToInt(p.Portals)>>,
       <<"PREF_LAST_APP", "=">> \o Quote(p.LastApp) >>
    \o (IF p.FIDO2BottleID # << >>
        THEN << <<"FIDO2_BOTTLE_ID", "=">> \o Quote(p.FIDO2BottleID) >> ELSE << >>)
    \o (IF p.FIDO2CredentialID # << >>
        THEN << <<"FIDO2_CREDENTIAL_ID", "=">> \o Quote(p.FIDO2CredentialID) >> ELSE << >>)
    \o (IF p.FIDO2Salt # << >>
        THEN << <<"FIDO2_SALT", "=">> \o Quote(p.FIDO2Salt) >> ELSE << >>)
    \o (IF p.FIDO2DeviceHint # << >>
        THEN << <<"FIDO2_DEVICE_HINT", "=">> \o Quote(p.FIDO2DeviceHint) >> ELSE << >>)

\* strings.Trim(s, cutset): leading and trailing tokens of the cutset go
RECURSIVE TrimLeft(_, _)
TrimLeft(s, cut) ==
    IF s # << >> /\ Head(s) \in cut THEN TrimLeft(Tail(s), cut) ELSE s

RECURSIVE TrimRight(_, _)
TrimRight(s, cut) ==
    IF s # << >> /\ s[Len(s)] \in cut THEN TrimRight(SubSeq(s, 1, Len(s) - 1), cut) ELSE s

Trim(s, cut) == TrimRight(TrimLeft(s, cut), cut)

TrimSpace(s) == Trim(s, {" "})

\* strings.SplitN(line, "=", 2)
SplitN(line) ==
    LET at == {i \in 1..Len(line) : line[i] = "="}
    IN  IF at = {} THEN <<line>>
        ELSE LET i == CHOOSE i \in at : \A j \in at : i <= j
             IN  <<SubSeq(line, 1, i - 1), SubSeq(line, i + 1, Len(line))>>

\* val == "1" || strings.ToLower(val) == "true"
TrueWords == {"true", "True", "TRUE"}
BoolVal(val) == val = <<"1">> \/ (Len(val) = 1 /\ val[1] \in TrueWords)

\* blank lines and comments are skipped
Skipped(line) == line = << >> \/ line[1] = "#"

UnknownKey_Reset(p) == defaultPermissions
\* the switch has no default case
UnknownKey(p) == p

\* switch key
SetKey(p, key, val) ==
    IF key = <<"PREF_NETWORK">> THEN [p EXCEPT !.Network = BoolVal(val)]
    ELSE IF key = <<"PREF_AUDIO">> THEN [p EXCEPT !.Audio = BoolVal(val)]
    ELSE IF key = <<"PREF_GPU">> THEN [p EXCEPT !.GPU = BoolVal(val)]
    ELSE IF key = <<"PREF_WAYLAND">> THEN [p EXCEPT !.Wayland = BoolVal(val)]
    ELSE IF key = <<"PREF_X11">> THEN [p EXCEPT !.X11 = BoolVal(val)]
    ELSE IF key = <<"PREF_CAMERA">> THEN [p EXCEPT !.Camera = BoolVal(val)]
    ELSE IF key = <<"PREF_PORTALS">> THEN [p EXCEPT !.Portals = BoolVal(val)]
    ELSE IF key = <<"PREF_LAST_APP">> THEN [p EXCEPT !.LastApp = Trim(val, {DQ})]
    ELSE IF key = <<"FIDO2_BOTTLE_ID">> THEN [p EXCEPT !.FIDO2BottleID = Trim(val, {DQ})]
    ELSE IF key = <<"FIDO2_CREDENTIAL_ID">> THEN [p EXCEPT !.FIDO2CredentialID = Trim(val, {DQ})]
    ELSE IF key = <<"FIDO2_SALT">> THEN [p EXCEPT !.FIDO2Salt = Trim(val, {DQ})]
    ELSE IF key = <<"FIDO2_DEVICE_HINT">> THEN [p EXCEPT !.FIDO2DeviceHint = Trim(val, {DQ})]
    ELSE UnknownKey(p)

\* the body of the scanner loop
ParseLine(p, text) ==
    LET line == TrimSpace(text)
        parts == SplitN(line)
    IN  IF Skipped(line) THEN p
        ELSE IF Len(parts) # 2 THEN p
        ELSE SetKey(p, TrimSpace(parts[1]), TrimSpace(parts[2]))

RECURSIVE ScanLines(_, _)
ScanLines(p, lines) ==
    IF lines = << >> THEN p ELSE ScanLines(ParseLine(p, Head(lines)), Tail(lines))

\* a config file: whether os.Open finds it, and its lines
NoFile == [exists |-> FALSE, lines |-> << >>]
File(lines) == [exists |-> TRUE, lines |-> lines]

loadPermissions(file) ==
    IF ~file.exists THEN defaultPermissions ELSE ScanLines(defaultPermissions, file.lines)

\* lines a config file may hold: written by a save, edited by hand, damaged
SampleLines ==
    {<< >>, <<" ">>,
     <<"#", "PREF_CAMERA", "=", "1">>,
     <<"PREF_CAMERA">>,
     <<"BOGUS", "=", "1">>,
     <<"PREF_CAMERA", "=", "1">>,
     <<"PREF_NETWORK", "=", "0">>,
     <<" ", "PREF_AUDIO", " ", "=", " ", "TRUE", " ">>,
     <<"PREF_PORTALS", "=", "yes">>,
     <<"PREF_LAST_APP", "=", DQ, "a", DQ>>,
     <<"FIDO2_SALT", "=", DQ, "a", DQ>>,
     <<"FIDO2_BOTTLE_ID", "=", "a", "=", "a">>}

Files == {NoFile} \cup {File(l) : l \in SeqsUpTo(SampleLines, MaxFileLines)}

NoCheck == [isFIDO2 |-> FALSE, err |-> "unchecked"]

\* the goroutines that run deleteBottleCmd
DeleteTasks == {"d1", "d2"}

\* a call of deleteBottle: its position and the error it returns
DlIdle == [pc |-> "idle", ret |-> "none"]

\* the length of the hmac-secret, in bytes
SecretLen == 32

\* a run of fido2-assert: whether the temporary input file could be made,
\* whether the tool exited with 0, the number of lines of its trimmed
\* output, and the last of them: its number of 4-character groups, how many
\* "=" end it, and whether it is well-formed base64
NoResponse ==
    [tmpOk |-> TRUE, runOk |-> FALSE, nlines |-> 1,
     last |-> [groups |-> 0, pad |-> 0, wellFormed |-> FALSE]]

\* what GetFIDO2Secret returned: the length of the secret, or the error
NoSecret == [kind |-> "none"]

\* p is the value in memory, file the config file, loaded what
\* loadPermissions returned, res what IsFIDO2Bottle returned; bottle is
\* whether the bottle file exists, fmt how far the LUKS format of a creation
\* got, del the calls of deleteBottle, secret the length of the fido2Secret
\* given to CreateBottleWithYubiKey, resp and derived the output of
\* fido2-assert and what GetFIDO2Secret returned for it
CfIdle ==
    [pc |-> "off", p |-> defaultPermissions, file |-> NoFile,
     loaded |-> defaultPermissions, res |-> NoCheck, bottle |-> FALSE, fmt |-> "none",
     \* the function that creates ("yubikey": CreateBottleWithYubiKey, "base":
     \* createBottleBase); history: truncate has made the sparse file
     kind |-> "yubikey", made |-> FALSE,
     del |-> [t \in DeleteTasks |-> DlIdle],
     secret |-> SecretLen, resp |-> NoResponse, derived |-> NoSecret,
     \* the config directory of the TUI's bottles (empty outside the runs of
     \* its editor); history: the bottle p was loaded from and the value
     \* loaded, the saves done
     files |-> << >>, from |-> "", orig |-> defaultPermissions, saves |-> 0]

\* IsFIDO2Bottle(perms) on the value in memory
CfIsFIDO2 ==
    /\ cf.pc = "mem"
    /\ cf.res = NoCheck
    /\ cf' = [cf EXCEPT !.res = IsFIDO2Bottle(cf.p)]

\* savePermissions(path, p): the file holds the lines, or the save fails
\* and the file is as before
CfSave ==
    /\ cf.pc = "mem"
    /\ \E ok \in BOOLEAN :
        cf' = IF ok THEN [cf EXCEPT !.pc = "saved", !.file = File(FormatLines(cf.p))]
              ELSE [cf EXCEPT !.pc = "savefailed"]

\* loadPermissions(path)
CfLoad ==
    /\ cf.pc \in {"saved", "file"}
    /\ cf' = [cf EXCEPT !.pc = IF cf.pc = "saved" THEN "reloaded" ELSE "loaded",
                        !.loaded = loadPermissions(cf.file)]

(***************************************************************************)
(* The config store: savePermissionsAtomic                                 *)
(***************************************************************************)
\* lines of one config file
NumLines == 2
\* saves in one run
MaxSaves == 2

Names == {"cfg", "tmp"}
Inodes == 1..(MaxSaves + 1)

\* the file content version v of the metadata is saved as
Content(v) == [i \in 1..NumLines |-> [ver |-> v, line |-> i]]

\* dir and data are what a reader sees; ddir and ddata are what is on disk
\* and survives a crash.  Inode 0 is "no such file".
NoFs ==
    [dir |-> [n \in Names |-> 0], ddir |-> [n \in Names |-> 0],
     data |-> [i \in Inodes |-> << >>], ddata |-> [i \in Inodes |-> << >>]]

\* a config file written by an earlier run, wholly on disk
OldFs ==
    [NoFs EXCEPT !.dir.cfg = 1, !.ddir.cfg = 1, !.data[1] = Content(0), !.ddata[1] = Content(0)]

Absent == <<"absent">>

\* what os.Open(path) and a read to the end return
ReadFile(f, name) == IF f.dir[name] = 0 THEN Absent ELSE f.data[f.dir[name]]

\* synced, renamed, dirsynced: the steps of this save that succeeded
SvIdle ==
    [pc |-> "idle", ver |-> 0, ino |-> 0, written |-> 0, ret |-> NoRet, base |-> Absent,
     synced |-> FALSE, renamed |-> FALSE, dirsynced |-> FALSE]

SvReturned(ret) == [sv EXCEPT !.pc = "done", !.ret = ret]

\* os.Remove(tempPath)
Removed(f) == [f EXCEPT !.dir.tmp = 0]

Fsynced_Skip(f, ino) == f

\* tempFile.Sync(): the file's data reaches the disk
Fsynced(f, ino) == [f EXCEPT !.ddata[ino] = f.data[ino]]

\* os.MkdirAll, the lines
SaveBegin ==
    /\ sv.pc \in {"idle", "done"}
    /\ sv.ver < MaxSaves
    /\ sv' = [sv EXCEPT !.pc = "create", !.ver = @ + 1, !.ino = 0, !.written = 0,
                        !.ret = NoRet, !.base = ReadFile(fs, "cfg"),
                        !.synced = FALSE, !.renamed = FALSE, !.dirsynced = FALSE]
    /\ UNCHANGED fs

\* os.CreateTemp in the directory of path
SaveCreateTemp ==
    /\ sv.pc = "create"
    /\ \E ok \in BOOLEAN :
        IF ok
        THEN /\ fs' = [fs EXCEPT !.dir.tmp = sv.ver + 1, !.data[sv.ver + 1] = << >>]
             /\ sv' = [sv EXCEPT !.pc = "write", !.ino = sv.ver + 1]
        ELSE /\ sv' = SvReturned(RetErr(OsError))
             /\ UNCHANGED fs

AfterLastLine_NoSync == "rename"
\* after the loop: "Sync to disk"
AfterLastLine == "sync"

\* tempFile.WriteString(line + "\n"), one turn of the loop
SaveWriteLine ==
    /\ sv.pc = "write"
    /\ \E ok \in BOOLEAN :
        IF ok
        THEN /\ fs' = [fs EXCEPT !.data[sv.ino] = Append(@, Content(sv.ver)[sv.written + 1])]
             /\ sv' = [sv EXCEPT !.written = @ + 1,
                                 !.pc = IF sv.written + 1 = NumLines THEN AfterLastLine ELSE "write"]
        ELSE /\ fs' = Removed(fs)
             /\ sv' = SvReturned(RetErr(OsError))

\* tempFile.Sync(), tempFile.Close()
SaveSync ==
    /\ sv.pc = "sync"
    /\ \E ok \in BOOLEAN :
        IF ok
        THEN /\ fs' = Fsynced(fs, sv.ino)
             /\ sv' = [sv EXCEPT !.pc = "rename", !.synced = TRUE]
        ELSE /\ fs' = Removed(fs)
             /\ sv' = SvReturned(RetErr(OsError))

\* os.Rename(tempPath, path)
SaveRename ==
    /\ sv.pc = "rename"
    /\ \E ok \in BOOLEAN :
        IF ok
        THEN /\ fs' = [fs EXCEPT !.dir.cfg = sv.ino, !.dir.tmp = 0]
             /\ sv' = [sv EXCEPT !.pc = "dirsync", !.renamed = TRUE]
        ELSE /\ fs' = Removed(fs)
             /\ sv' = SvReturned(RetErr(OsError))

\* os.Open(dir), dir.Sync(), dir.Close(): errors ignored
SaveDirSync ==
    /\ sv.pc = "dirsync"
    /\ \E ok \in BOOLEAN :
        /\ fs' = IF ok THEN [fs EXCEPT !.ddir = fs.dir] ELSE fs
        /\ sv' = [SvReturned(RetNil) EXCEPT !.dirsynced = ok]

\* the kernel writes cached file data back on its own: one more line of
\* some file reaches the disk
Writeback ==
    /\ sv.pc # "crashed"
    /\ \E i \in Inodes :
        /\ Len(fs.ddata[i]) < Len(fs.data[i])
        /\ fs' = [fs EXCEPT !.ddata[i] = SubSeq(fs.data[i], 1, Len(fs.ddata[i]) + 1)]
    /\ UNCHANGED sv

\* the kernel writes a directory entry back on its own
DirWriteback ==
    /\ sv.pc # "crashed"
    /\ \E n \in Names :
        /\ fs.ddir[n] # fs.dir[n]
        /\ fs' = [fs EXCEPT !.ddir[n] = fs.dir[n]]
    /\ UNCHANGED sv

\* power loss or kill at any point: what is on disk is what remains
Crash ==
    /\ sv.pc # "crashed"
    /\ sv.ver > 0
    /\ fs' = [fs EXCEPT !.dir = fs.ddir, !.data = fs.ddata]
    /\ sv' = [sv EXCEPT !.pc = "crashed"]

saveOnly == <<kernel, mt, um, cf, process>>

InitSave ==
    /\ kernel = NoKernel
    /\ mt = [t \in MountTasks |-> MtIdle]
    /\ um = [t \in UmThreads |-> UmIdle]
    /\ fs \in {NoFs, OldFs}
    /\ sv = SvIdle
    /\ cf = CfIdle
    /\ NoProcess

NextSave ==
    \/ SaveBegin /\ UNCHANGED saveOnly
    \/ SaveCreateTemp /\ UNCHANGED saveOnly
    \/ SaveWriteLine /\ UNCHANGED saveOnly
    \/ SaveSync /\ UNCHANGED saveOnly
    \/ SaveRename /\ UNCHANGED saveOnly
    \/ SaveDirSync /\ UNCHANGED saveOnly
    \/ Writeback /\ UNCHANGED saveOnly
    \/ DirWriteback /\ UNCHANGED saveOnly
    \/ Crash /\ UNCHANGED saveOnly

SpecSave == InitSave /\ [][NextSave]_vars

(***************************************************************************)
(* CreateBottleWithYubiKey                                                 *)
(***************************************************************************)
Creating(pc) == cf.pc = pc /\ sv.pc # "crashed"

\* a check that lets a longer secret through, to be cut to size
ValidSecretLength_AtLeast(n) == n >= SecretLen

\* len(secret) != 32 is an error
ValidSecretLength(n) == n = SecretLen

\* the argument checks, os.Stat, filepath.Abs: any of them may return
\* early; the test of len(fido2Secret) comes third, and createBottleBase
\* has none
CreateChecks ==
    /\ Creating("c.start")
    /\ \E bad \in {"none", "path", "size", "secret", "exists", "abs"} :
        /\ bad = "secret" => (cf.kind = "yubikey" /\ ~ValidSecretLength(cf.secret))
        /\ bad \in {"none", "exists", "abs"} =>
               (cf.kind = "yubikey" => ValidSecretLength(cf.secret))
        /\ cf' = [cf EXCEPT !.pc = IF bad = "none" THEN "c.truncate" ELSE "c.failed"]
    /\ UNCHANGED <<fs, sv>>

\* "Create sparse file": truncate -s size realPath; createBottleBase goes
\* on to the LUKS format, CreateBottleWithYubiKey saves the config first
CreateTruncate ==
    /\ Creating("c.truncate")
    /\ \E ok \in BOOLEAN :
        cf' = IF ok
              THEN [cf EXCEPT !.pc = IF cf.kind = "yubikey" THEN "c.perms" ELSE "c.format",
                              !.bottle = TRUE, !.made = TRUE]
              ELSE [cf EXCEPT !.pc = "c.failed"]
    /\ UNCHANGED <<fs, sv>>

\* perms := defaultPermissions() with the four FIDO2 fields, then the call
\* of savePermissionsAtomic(configPath, perms)
CreateSave ==
    /\ Creating("c.perms")
    /\ \E hint \in Ids :
        cf' = [cf EXCEPT !.pc = "c.saving",
                         !.p = [defaultPermissions EXCEPT
                                   !.FIDO2BottleID = <<"a">>, !.FIDO2CredentialID = <<"a">>,
                                   !.FIDO2Salt = <<"a">>, !.FIDO2DeviceHint = hint]]
    /\ SaveBegin

AfterSave_Ignored(ret) == "c.format"
\* if err := savePermissionsAtomic(...); err != nil { os.Remove; return }
AfterSave(ret) == IF ret.kind = "err" THEN "c.failed" ELSE "c.format"

\* savePermissionsAtomic has returned
CreateSaved ==
    /\ Creating("c.saving")
    /\ sv.pc = "done"
    /\ cf' = [cf EXCEPT !.pc = AfterSave(sv.ret),
                        !.bottle = (AfterSave(sv.ret) # "c.failed")]
    /\ UNCHANGED <<fs, sv>>

\* FormatBottleWithFIDO2(realPath, fido2Secret) is called (luksCmd in
\* createBottleBase): cryptsetup luksFormat starts
CreateFormat ==
    /\ Creating("c.format")
    /\ cf' = [cf EXCEPT !.pc = "c.formatting", !.fmt = "begun"]
    /\ UNCHANGED <<fs, sv>>

\* os.Remove(configPath)
ConfigRemoved(f) == [f EXCEPT !.dir.cfg = 0]

\* the files a failed creation removes: os.Remove(realPath) is the
\* caller's cf.bottle, and CreateBottleWithYubiKey removes the config too
CreateUndo(f) == IF cf.kind = "yubikey" THEN ConfigRemoved(f) ELSE f

\* FormatBottleWithFIDO2 (luksCmd.CombinedOutput) returns; on an error the
\* bottle file, and the config of a YubiKey bottle, are removed
CreateFormatReturns ==
    /\ Creating("c.formatting")
    /\ \E ok \in BOOLEAN :
        IF ok
        THEN /\ cf' = [cf EXCEPT !.pc = "c.loop", !.fmt = "done"]
             /\ UNCHANGED fs
        ELSE /\ cf' = [cf EXCEPT !.pc = "c.failed", !.fmt = "failed", !.bottle = FALSE]
             /\ fs' = CreateUndo(fs)
    /\ UNCHANGED <<kernel, sv>>

\* cryptsetupCmd("close", mapperName).Run(): the result is dropped
CloseMapper(k, ok) == IF ok THEN [k EXCEPT !.crypt = ""] ELSE k

\* privCmd("losetup", "-d", loopDev).Run(): the result is dropped; a loop
\* device that still carries a mapper stays attached
DetachLoop(k, ok) == IF ok /\ k.crypt = "" THEN [k EXCEPT !.loop = ""] ELSE k

\* "Setup loop device": losetup --find --show -- realPath
CreateLoopSetup ==
    /\ Creating("c.loop")
    /\ \/ /\ cf' = [cf EXCEPT !.pc = "c.failed", !.bottle = FALSE]
          /\ fs' = CreateUndo(fs)
          /\ UNCHANGED kernel
       \/ \E l \in LoopDevs :
          /\ kernel.loop = ""
          /\ kernel' = [kernel EXCEPT !.loop = l]
          /\ cf' = [cf EXCEPT !.pc = "c.open"]
          /\ UNCHANGED fs
    /\ UNCHANGED sv

\* "Open LUKS": cryptsetup open (OpenLUKSWithFIDO2); on an error the loop
\* device is detached and the files are removed
CreateOpen ==
    /\ Creating("c.open")
    /\ \/ \E detached \in BOOLEAN :
          /\ kernel' = DetachLoop(kernel, detached)
          /\ cf' = [cf EXCEPT !.pc = "c.failed", !.bottle = FALSE]
          /\ fs' = CreateUndo(fs)
       \/ \E c \in DmDevs :
          /\ kernel' = [kernel EXCEPT !.crypt = c]
          /\ cf' = [cf EXCEPT !.pc = "c.mkfs"]
          /\ UNCHANGED fs
    /\ UNCHANGED sv

\* mkfs.ext4 on the mapper, then "Cleanup": close and losetup -d on either
\* outcome, and the files removed when mkfs failed
CreateMkfs ==
    /\ Creating("c.mkfs")
    /\ \E ok, closed, detached \in BOOLEAN :
        /\ kernel' = DetachLoop(CloseMapper(kernel, closed), detached)
        /\ IF ok
           THEN /\ cf' = [cf EXCEPT !.pc = "c.done"]
                /\ UNCHANGED fs
           ELSE /\ cf' = [cf EXCEPT !.pc = "c.failed", !.bottle = FALSE]
                /\ fs' = CreateUndo(fs)
    /\ UNCHANGED sv

createOnly == <<kernel, mt, um, process>>

createToo == <<mt, um, process>>

InitCreate ==
    /\ kernel = NoKernel
    /\ mt = [t \in MountTasks |-> MtIdle]
    /\ um = [t \in UmThreads |-> UmIdle]
    /\ fs \in {NoFs, OldFs}
    /\ sv = SvIdle
    /\ cf = [CfIdle EXCEPT !.pc = "c.start"]
    /\ NoProcess

\* the save's steps run while CreateBottleWithYubiKey waits in the call
NextCreate ==
    \/ CreateChecks /\ UNCHANGED createOnly
    \/ CreateTruncate /\ UNCHANGED createOnly
    \/ CreateSave /\ UNCHANGED createOnly
    \/ SaveCreateTemp /\ UNCHANGED saveOnly
    \/ SaveWriteLine /\ UNCHANGED saveOnly
    \/ SaveSync /\ UNCHANGED saveOnly
    \/ SaveRename /\ UNCHANGED saveOnly
    \/ SaveDirSync /\ UNCHANGED saveOnly
    \/ CreateSaved /\ UNCHANGED createOnly
    \/ CreateFormat /\ UNCHANGED createOnly
    \/ CreateFormatReturns /\ UNCHANGED createToo
    \/ CreateLoopSetup /\ UNCHANGED createToo
    \/ CreateOpen /\ UNCHANGED createToo
    \/ CreateMkfs /\ UNCHANGED createToo
    \/ Writeback /\ UNCHANGED saveOnly
    \/ DirWriteback /\ UNCHANGED saveOnly
    \/ Crash /\ UNCHANGED saveOnly

SpecCreate == InitCreate /\ [][NextCreate]_vars

\* a call of createBottleBase or of CreateBottleWithYubiKey
InitCreateBottle ==
    /\ kernel = NoKernel
    /\ mt = [t \in MountTasks |-> MtIdle]
    /\ um = [t \in UmThreads |-> UmIdle]
    /\ fs \in {NoFs, OldFs}
    /\ sv = SvIdle
    /\ \E kind \in {"base", "yubikey"} : cf = [CfIdle EXCEPT !.pc = "c.start", !.kind = kind]
    /\ NoProcess

SpecCreateBottle == InitCreateBottle /\ [][NextCreate]_vars

(***************************************************************************)
(* GetFIDO2Secret, and CreateBottleWithYubiKey with the secret             *)
(***************************************************************************)
MinGroups == 10
MaxGroups == 12
MaxLines == 6

SecretErr(msg) == [kind |-> "err", msg |-> msg]
SecretOk(n) == [kind |-> "ok", len |-> n]

\* base64.StdEncoding.DecodeString: each group of 4 characters gives 3
\* bytes, less one for each "=" that ends the text
Base64Decode(line) ==
    IF line.wellFormed /\ (line.pad = 0 \/ line.groups > 0)
    THEN [ok |-> TRUE, len |-> 3 * line.groups - line.pad]
    ELSE [ok |-> FALSE, len |-> 0]

\* GetFIDO2Secret on a run of fido2-assert
GetFIDO2Secret(r) ==
    IF ~r.tmpOk THEN SecretErr("os error")
    ELSE IF ~r.runOk THEN SecretErr("fido2-assert failed")
    ELSE IF r.nlines < 5 THEN SecretErr("unexpected fido2-assert output")
    ELSE LET secret == Base64Decode(r.last)
         IN  IF ~secret.ok THEN SecretErr("decode hmac-secret")
             ELSE IF ~ValidSecretLength(secret.len)
             THEN SecretErr("unexpected hmac-secret length")
             ELSE SecretOk(secret.len)

Responses ==
    [tmpOk : BOOLEAN, runOk : BOOLEAN, nlines : 1..MaxLines,
     last : [groups : MinGroups..MaxGroups, pad : 0..2, wellFormed : BOOLEAN]]

\* secret, err := GetFIDO2Secret(...)
DeriveSecret ==
    /\ Creating("g.start")
    /\ cf' = [cf EXCEPT !.pc = "g.done", !.derived = GetFIDO2Secret(cf.resp)]
    /\ UNCHANGED <<fs, sv>>

\* the caller creates a bottle with the secret it got
CreateWithDerived ==
    /\ Creating("g.done")
    /\ cf.derived.kind = "ok"
    /\ cf' = [cf EXCEPT !.pc = "c.start", !.secret = cf.derived.len]
    /\ UNCHANGED <<fs, sv>>

\* a run of fido2-assert to derive from, or a call of
\* CreateBottleWithYubiKey with a secret of any length near 32
InitSecret ==
    /\ kernel = NoKernel
    /\ mt = [t \in MountTasks |-> MtIdle]
    /\ um = [t \in UmThreads |-> UmIdle]
    /\ fs \in {NoFs, OldFs}
    /\ sv = SvIdle
    /\ \/ \E r \in Responses : cf = [CfIdle EXCEPT !.pc = "g.start", !.resp = r]
       \/ \E n \in (3 * MinGroups - 2)..(3 * MaxGroups) :
              cf = [CfIdle EXCEPT !.pc = "c.start", !.secret = n]
    /\ NoProcess

NextSecret ==
    \/ DeriveSecret /\ UNCHANGED createOnly
    \/ CreateWithDerived /\ UNCHANGED createOnly
    \/ CreateChecks /\ UNCHANGED createOnly
    \/ CreateTruncate /\ UNCHANGED createOnly
    \/ CreateSave /\ UNCHANGED createOnly
    \/ SaveCreateTemp /\ UNCHANGED saveOnly
    \/ SaveWriteLine /\ UNCHANGED saveOnly
    \/ SaveSync /\ UNCHANGED saveOnly
    \/ SaveRename /\ UNCHANGED saveOnly
    \/ SaveDirSync /\ UNCHANGED saveOnly
    \/ CreateSaved /\ UNCHANGED createOnly
    \/ CreateFormat /\ UNCHANGED createOnly
    \/ CreateFormatReturns /\ UNCHANGED createToo
    \/ CreateLoopSetup /\ UNCHANGED createToo
    \/ CreateOpen /\ UNCHANGED createToo
    \/ CreateMkfs /\ UNCHANGED createToo

SpecSecret == InitSecret /\ [][NextSecret]_vars

(***************************************************************************)
(* Specification of the mount sequence alone                               *)
(***************************************************************************)
\* the Permissions value by itself
configOnly == <<kernel, mt, um, fs, sv, process>>

InitConfig ==
    /\ kernel = NoKernel
    /\ mt = [t \in MountTasks |-> MtIdle]
    /\ um = [t \in UmThreads |-> UmIdle]
    /\ fs = NoFs
    /\ sv = SvIdle
    /\ NoProcess
    /\ \/ \E p \in PermissionValues : cf = [CfIdle EXCEPT !.pc = "mem", !.p = p]
       \/ \E f \in Files : cf = [CfIdle EXCEPT !.pc = "file", !.file = f]

NextConfig ==
    \/ CfIsFIDO2 /\ UNCHANGED configOnly
    \/ CfSave /\ UNCHANGED configOnly
    \/ CfLoad /\ UNCHANGED configOnly

SpecConfig == InitConfig /\ [][NextConfig]_vars

mountOnly == <<um, fs, sv, cf, process>>

InitMount ==
    /\ kernel \in KernelStates
    /\ mt = [t \in MountTasks |-> MtIdle]
    /\ um = [t \in UmThreads |-> UmIdle]
    /\ fs = NoFs
    /\ sv = SvIdle
    /\ cf = CfIdle
    /\ NoProcess

NextMount ==
    \E t \in {"m1"} :
        \/ MountBegin(t) /\ UNCHANGED mountOnly
        \/ LoopSetup(t) /\ UNCHANGED mountOnly
        \/ Unlock(t) /\ UNCHANGED mountOnly
        \/ Mount(t) /\ UNCHANGED mountOnly
        \/ ReLock(t) /\ UNCHANGED mountOnly
        \/ ReUnlock(t) /\ UNCHANGED mountOnly
        \/ ReMount(t) /\ UNCHANGED mountOnly

SpecMount == InitMount /\ [][NextMount]_vars

(***************************************************************************)
(* Specification of the unmount sequence alone                             *)
(***************************************************************************)
\* every MountInfo a caller can hold, consistent with the kernel or not
InfoValues ==
    {[LoopDevice |-> l, CleartextDevice |-> c, MountPoint |-> p, BottlePath |-> b] :
        l \in LoopDevs \cup {""}, c \in DmDevs \cup {""}, p \in MountPaths \cup {""},
        b \in {BottlePath, ""}}

Pointers == {NilPtr} \cup {Ptr(i) : i \in InfoValues}

unmountOnly == <<mt, fs, sv, cf, process>>

UnmountCall(t) ==
    /\ \E ptr \in Pointers : UnmountBegin(t, ptr)
    /\ UNCHANGED kernel

NextUnmount ==
    \E t \in {"main"} :
        \/ UnmountCall(t) /\ UNCHANGED unmountOnly
        \/ UmSync(t) /\ UNCHANGED unmountOnly
        \/ UmUnmount(t) /\ UNCHANGED unmountOnly
        \/ UmForceUnmount(t) /\ UNCHANGED unmountOnly
        \/ UmLock(t) /\ UNCHANGED unmountOnly
        \/ UmLoopDelete(t) /\ UNCHANGED unmountOnly

SpecUnmount == InitMount /\ [][NextUnmount]_vars

\* every external command returns: a step that can be taken is taken
SpecUnmountFair == SpecUnmount /\ WF_vars(NextUnmount)

(***************************************************************************)
(* Mount, then unmount what the mount returned                             *)
(***************************************************************************)
\* the caller of a successful mount passes its MountInfo to the unmount
RoundUnmount(t) ==
    /\ mt[t].pc = "done" /\ mt[t].ret.kind = "ok"
    /\ UnmountBegin("main", Ptr(mt[t].ret.info))
    /\ UNCHANGED kernel

Mounting == um["main"].pc = "idle"

NextRound ==
    \/ \E t \in MountTasks : Mounting /\ MountBegin(t) /\ UNCHANGED mountOnly
    \/ \E t \in MountTasks : Mounting /\ LoopSetup(t) /\ UNCHANGED mountOnly
    \/ \E t \in MountTasks : Mounting /\ Unlock(t) /\ UNCHANGED mountOnly
    \/ \E t \in MountTasks : Mounting /\ Mount(t) /\ UNCHANGED mountOnly
    \/ \E t \in MountTasks : Mounting /\ ReLock(t) /\ UNCHANGED mountOnly
    \/ \E t \in MountTasks : Mounting /\ ReUnlock(t) /\ UNCHANGED mountOnly
    \/ \E t \in MountTasks : Mounting /\ ReMount(t) /\ UNCHANGED mountOnly
    \/ \E t \in MountTasks : RoundUnmount(t) /\ UNCHANGED unmountOnly
    \/ UmSync("main") /\ UNCHANGED unmountOnly
    \/ UmUnmount("main") /\ UNCHANGED unmountOnly
    \/ UmForceUnmount("main") /\ UNCHANGED unmountOnly
    \/ UmLock("main") /\ UNCHANGED unmountOnly
    \/ UmLoopDelete("main") /\ UNCHANGED unmountOnly

SpecRound == InitMount /\ [][NextRound]_vars

(***************************************************************************)
(* The life of a bottle in the process: TUI handlers                       *)
(***************************************************************************)
Alive == th.exit = "none"

\* a Set function that does not take the mutex
MutexFree_NotTaken == TRUE

\* mountMutex.Lock() returns
MutexFree == reg.mountMutex = "free"

\* a Set function that returns without mountMutex.Unlock()
SetCurrentMountInfo_NoUnlock(r, info) ==
    [r EXCEPT !.currentMountInfo = info, !.mountMutex = "main"]

\* the assignments inside the mutex; the callers wait for MutexFree
SetCurrentMountInfo(r, info) == [r EXCEPT !.currentMountInfo = info]
SetCurrentRunningCmd(r, cmd) == [r EXCEPT !.currentRunningCmd = cmd]

\* the event loop is between two messages
TuiReady == Alive /\ th.mode = "tui" /\ th.main = "loop" /\ tui.h = "none"

\* a goroutine is free to run the next command
Dispatchable == \E t \in DOMAIN mt : mt[t].pc = "idle" /\ mt[t].n < MaxInvocations

\* the config of the bottle, as loadPermissions returned it: a password
\* bottle, a FIDO2 bottle, a config with the salt alone
BottleConfigs ==
    {defaultPermissions,
     [defaultPermissions EXCEPT !.FIDO2BottleID = <<"a">>, !.FIDO2CredentialID = <<"a">>,
                                !.FIDO2Salt = <<"a">>],
     [defaultPermissions EXCEPT !.FIDO2Salt = <<"a">>]}

\* the MountInfo updateLaunchConfirm builds: no BottlePath
Adopted(info) == Ptr([info EXCEPT !.BottlePath = ""])

\* a finished mount goroutine's record, ready for the next one
MtReset(task) == [MtIdle EXCEPT !.n = task.n]

\* updateLaunchConfirm, "enter": adopt a mounted bottle or ask for the key
LaunchConfirmEnter ==
    /\ TuiReady
    /\ tui.state = "viewLaunchConfirm"
    /\ LET info == Probe(kernel)
       IN  IF AlreadyMounted(info)
           THEN /\ MutexFree
                /\ tui' = [tui EXCEPT !.mountInfo = Adopted(info), !.state = "viewRunning",
                                      !.exec = TRUE]
                /\ reg' = SetCurrentMountInfo(reg, Adopted(info))
           ELSE /\ LET res == IsFIDO2Bottle(cf.p)
                   IN  tui' = IF res.err # "nil"
                              THEN [tui EXCEPT !.state = "viewError", !.errMsg = <<res.err>>]
                              ELSE IF res.isFIDO2
                              THEN [tui EXCEPT !.state = "viewFIDO2Unlock"]
                              ELSE [tui EXCEPT !.state = "viewPasswordInput",
                                               !.passwordInput = ""]
                /\ UNCHANGED reg
    /\ UNCHANGED <<kernel, mt, um, fs, sv, cf, child, th>>

\* updatePasswordInput, a key that is not "esc" or "enter" goes to the text
\* field: the value after it
PasswordKey(value) ==
    /\ TuiReady
    /\ tui.state = "viewPasswordInput"
    /\ value # tui.passwordInput
    /\ tui' = [tui EXCEPT !.passwordInput = value]
    /\ UNCHANGED <<kernel, mt, um, fs, sv, cf, reg, child, th>>

\* updatePasswordInput, "enter" with a password typed; m.loading is not
\* looked at
PasswordEnter ==
    /\ TuiReady
    /\ tui.state = "viewPasswordInput"
    /\ tui.passwordInput # ""
    /\ tui.cmd = "none" /\ Dispatchable
    /\ tui' = [tui EXCEPT !.loading = TRUE, !.cmd = "password"]
    /\ UNCHANGED <<kernel, mt, um, fs, sv, cf, reg, child, th>>

\* updateFIDO2Unlock with a device found: "enter" or the auto-unlock
FIDO2Unlock ==
    /\ TuiReady
    /\ tui.state = "viewFIDO2Unlock"
    /\ tui.cmd = "none" /\ Dispatchable
    /\ tui' = [tui EXCEPT !.loading = TRUE, !.cmd = "fido2"]
    /\ UNCHANGED <<kernel, mt, um, fs, sv, cf, reg, child, th>>

\* "esc" in the password and the YubiKey views
UnlockEsc ==
    /\ TuiReady
    /\ tui.state \in {"viewPasswordInput", "viewFIDO2Unlock"}
    /\ tui' = [tui EXCEPT !.state = "viewLaunchConfirm"]
    /\ UNCHANGED <<kernel, mt, um, fs, sv, cf, reg, child, th>>

\* the goroutine of mountBottleCmd or mountBottleFIDO2Cmd enters the mount
\* sequence
MountCmdStart(t) ==
    /\ Alive
    /\ tui.cmd # "none"
    /\ mt[t].pc = "idle"
    /\ MountBegin(t)
    /\ mt'[t].variant = tui.cmd
    /\ tui.cmd = "password" => mt'[t].password = "pw"
    /\ tui' = [tui EXCEPT !.cmd = "none"]
    /\ UNCHANGED <<um, fs, sv, cf, reg, child, th>>

\* mountBottleFIDO2Cmd: GetFIDO2Secret fails
GetSecretFails(t) ==
    /\ Alive
    /\ tui.cmd = "fido2"
    /\ mt[t].pc = "idle" /\ mt[t].n < MaxInvocations
    /\ mt' = [mt EXCEPT ![t] = [@ EXCEPT !.pc = "done", !.variant = "fido2",
                                         !.ret = RetErr(OsError), !.n = @ + 1]]
    /\ tui' = [tui EXCEPT !.cmd = "none"]
    /\ UNCHANGED <<kernel, um, fs, sv, cf, reg, child, th>>

\* case mountSuccessMsg, case fido2UnlockSuccessMsg
OnMountSuccess(t) ==
    /\ TuiReady
    /\ mt[t].pc = "done" /\ mt[t].ret.kind = "ok"
    /\ MutexFree
    /\ tui' = [tui EXCEPT !.mountInfo = Ptr(mt[t].ret.info), !.loading = FALSE,
                          !.state = "viewRunning", !.exec = TRUE]
    /\ reg' = SetCurrentMountInfo(reg, Ptr(mt[t].ret.info))
    /\ mt' = [mt EXCEPT ![t] = MtReset(mt[t])]
    /\ UNCHANGED <<kernel, um, fs, sv, cf, child, th>>

\* err.Error()
ErrorString(e) == IF e.id = "os" THEN e.msg ELSE <<e.op, ": ">> \o e.msg

WrongPasswordText == <<"Wrong password. Please try again.">>

MountFailed_ErrorView(m, msg) ==
    [m EXCEPT !.loading = FALSE, !.errMsg = ErrorString(msg.err), !.state = "viewError"]

\* Update, case mountFailedMsg
MountFailed(m, msg) ==
    IF msg.wrongPassword
    THEN [m EXCEPT !.loading = FALSE, !.errMsg = WrongPasswordText,
                   !.passwordInput = "", !.state = "viewPasswordInput"]
    ELSE [m EXCEPT !.loading = FALSE, !.errMsg = ErrorString(msg.err),
                   !.state = "viewError"]

\* case mountFailedMsg, case fido2UnlockFailedMsg
OnMountFailed(t) ==
    /\ TuiReady
    /\ mt[t].pc = "done" /\ mt[t].ret.kind = "err"
    /\ tui' = IF mt[t].variant = "fido2"
              THEN [tui EXCEPT !.loading = FALSE, !.state = "viewFIDO2Unlock"]
              ELSE MountFailed(tui, MountBottleMsg(mt[t].ret))
    /\ mt' = [mt EXCEPT ![t] = MtReset(mt[t])]
    /\ UNCHANGED <<kernel, um, fs, sv, cf, reg, child, th>>

\* the command the success handlers return runs: tea.ExecProcess starts the
\* application, or fails to and reports at once
TuiExec ==
    /\ Alive
    /\ th.mode = "tui"
    /\ tui.exec
    /\ child.state \in {"none", "exited"}
    /\ \E ok \in BOOLEAN :
        /\ child' = IF ok THEN [ChildNone EXCEPT !.state = "running"] ELSE child
        /\ tui' = [tui EXCEPT !.exec = FALSE, !.appMsg = IF ok THEN @ ELSE TRUE]
    /\ UNCHANGED <<kernel, mt, um, fs, sv, cf, reg, th>>

\* the application ends, by itself or by a signal it was sent
ChildExits ==
    /\ Alive
    /\ child.state = "running"
    /\ child' = [child EXCEPT !.state = "exited"]
    /\ tui' = IF th.mode = "tui" THEN [tui EXCEPT !.appMsg = TRUE] ELSE tui
    /\ UNCHANGED <<kernel, mt, um, fs, sv, cf, reg, th>>

\* case appFinishedMsg, up to the call of udisksUnmountBottle
OnAppFinished ==
    /\ TuiReady
    /\ tui.appMsg
    /\ IF ~tui.mountInfo.nil
       THEN /\ UnmountBegin("main", tui.mountInfo)
            /\ tui' = [tui EXCEPT !.appMsg = FALSE, !.h = "appFinished"]
            /\ th' = [th EXCEPT !.uminv = TRUE]
       ELSE /\ tui' = [tui EXCEPT !.appMsg = FALSE, !.state = "viewBottleList"]
            /\ UNCHANGED <<um, th>>
    /\ UNCHANGED <<kernel, mt, fs, sv, cf, reg, child>>

\* case appFinishedMsg, from the return of udisksUnmountBottle: both
\* branches clear the reference
OnAppFinishedReturn ==
    /\ Alive
    /\ tui.h = "appFinished"
    /\ um["main"].pc = "done"
    /\ MutexFree
    /\ tui' = [tui EXCEPT !.h = "none", !.mountInfo = NilPtr,
                          !.state = IF um["main"].ret.kind = "err" THEN "viewError"
                                    ELSE "viewBottleList",
                          !.errMsg = IF um["main"].ret.kind = "err"
                                     THEN <<"Unmount failed: ">> \o ErrorString(um["main"].ret.err)
                                     ELSE @]
    /\ reg' = SetCurrentMountInfo(reg, NilPtr)
    /\ um' = [um EXCEPT !["main"] = UmIdle]
    /\ UNCHANGED <<kernel, mt, fs, sv, cf, child, th>>

\* "ctrl+c" or "q": unmount before quitting
QuitKey ==
    /\ TuiReady
    /\ IF ~tui.mountInfo.nil
       THEN /\ UnmountBegin("main", tui.mountInfo)
            /\ tui' = [tui EXCEPT !.h = "quit"]
            /\ th' = [th EXCEPT !.uminv = TRUE]
       ELSE /\ th' = [th EXCEPT !.main = "exited", !.exit = "0"]
            /\ UNCHANGED <<tui, um>>
    /\ UNCHANGED <<kernel, mt, fs, sv, cf, reg, child>>

\* the quit handler after the unmount: tea.Quit, p.Run returns nil
QuitReturn ==
    /\ Alive
    /\ tui.h = "quit"
    /\ um["main"].pc = "done"
    /\ MutexFree
    /\ tui' = [tui EXCEPT !.h = "none", !.mountInfo = NilPtr]
    /\ reg' = SetCurrentMountInfo(reg, NilPtr)
    /\ um' = [um EXCEPT !["main"] = UmIdle]
    /\ th' = [th EXCEPT !.main = "exited", !.exit = "0"]
    /\ UNCHANGED <<kernel, mt, fs, sv, cf, child>>

\* updateError, "esc" or "enter": back to the bottle list, where this model
\* of one launch ends
ErrorDismiss ==
    /\ TuiReady
    /\ tui.state = "viewError"
    /\ tui' = [tui EXCEPT !.state = "viewBottleList", !.errMsg = << >>]
    /\ UNCHANGED <<kernel, mt, um, fs, sv, cf, reg, child, th>>

\* p.Run returns an error, or a panic reaches main's deferred recover
RunFails ==
    /\ TuiReady
    /\ th' = [th EXCEPT !.main = "cleanup", !.cl["main"] = "once"]
    /\ UNCHANGED <<kernel, mt, um, fs, sv, cf, tui, reg, child>>

(***************************************************************************)
(* Signals and performCleanup                                              *)
(***************************************************************************)
SIGHUP == 1
SIGINT == 2
SIGQUIT == 3
SIGTERM == 15
ExitSIGINT == 130

\* signal.Notify: the TUI leaves SIGINT to Bubble Tea, where ctrl+c is a key
Notified(mode) ==
    IF mode = "tui" THEN {SIGTERM, SIGHUP, SIGQUIT}
    ELSE {SIGINT, SIGTERM, SIGHUP, SIGQUIT}

\* a handler that exits with ExitSIGINT whatever the signal
SignalExit_AlwaysSIGINT(mode, sig) == ExitSIGINT

\* the switch on sig after performCleanup
SignalExit(mode, sig) ==
    CASE mode = "cli" /\ sig = SIGINT -> ExitSIGINT
      [] sig = SIGTERM -> 128 + 15
      [] sig = SIGHUP -> 128 + 1
      [] sig = SIGQUIT -> 128 + 3
      [] OTHER -> ExitSIGINT

\* a signal of S is sent to the process: without a handler it ends the
\* process, with one it is queued unless the channel is full
SignalArrives(S) ==
    /\ Alive
    /\ IF th.sig = "off"
       THEN th' = [th EXCEPT !.exit = "killed"]
       ELSE /\ th.sigch = 0
            /\ \E s \in S \cap Notified(th.mode) : th' = [th EXCEPT !.sigch = s]
    /\ UNCHANGED <<kernel, mt, um, fs, sv, cf, tui, reg, child>>

\* sig := <-c in the handler goroutine, which then calls performCleanup
SigReceive ==
    /\ Alive
    /\ th.sig = "wait"
    /\ th.sigch # 0
    /\ th' = [th EXCEPT !.sig = "cleanup", !.sigch = 0, !.recv = th.sigch,
                        !.cl["sig"] = "once"]
    /\ UNCHANGED <<kernel, mt, um, fs, sv, cf, tui, reg, child>>

OnceDo_Unguarded(o) == "run"

\* sync.Once.Do: the first caller runs f, a caller during the run waits for
\* its end, a later caller returns at once
OnceDo(o) == CASE o = "fresh" -> "run" [] o = "running" -> "wait" [] OTHER -> "skip"

\* cleanupOnce.Do(func() {...})
CleanupOnceDo(t) ==
    /\ Alive
    /\ th.cl[t] = "once"
    /\ OnceDo(reg.cleanupOnce) # "wait"
    /\ IF OnceDo(reg.cleanupOnce) = "run"
       THEN /\ reg' = [reg EXCEPT !.cleanupOnce = "running", !.runs = @ + 1]
            /\ th' = [th EXCEPT !.cl[t] = "lock"]
       ELSE /\ th' = [th EXCEPT !.cl[t] = "after"]
            /\ UNCHANGED reg
    /\ UNCHANGED <<kernel, mt, um, fs, sv, cf, tui, child>>

\* mountMutex.Lock()
CleanupLock(t) ==
    /\ Alive
    /\ th.cl[t] = "lock"
    /\ MutexFree
    /\ reg' = [reg EXCEPT !.mountMutex = t]
    /\ th' = [th EXCEPT !.cl[t] = "child"]
    /\ UNCHANGED <<kernel, mt, um, fs, sv, cf, tui, child>>

\* cmd.Process is set once the process was started
ProcessSet(c) == c.state \in {"running", "exited"}

\* "Stop running Flatpak process first": the test and SIGTERM
CleanupChild(t) ==
    /\ Alive
    /\ th.cl[t] = "child"
    /\ IF reg.currentRunningCmd # "nil" /\ ProcessSet(child)
       THEN /\ child' = [child EXCEPT !.term = TRUE]
            /\ th' = [th EXCEPT !.cl[t] = "kill"]
       ELSE /\ th' = [th EXCEPT !.cl[t] = "info"]
            /\ UNCHANGED child
    /\ UNCHANGED <<kernel, mt, um, fs, sv, cf, tui, reg>>

\* after the 200 ms: Process.Kill(), currentRunningCmd = nil
CleanupKill(t) ==
    /\ Alive
    /\ th.cl[t] = "kill"
    /\ child' = [child EXCEPT !.kill = TRUE]
    /\ reg' = SetCurrentRunningCmd(reg, "nil")
    /\ th' = [th EXCEPT !.cl[t] = "info"]
    /\ UNCHANGED <<kernel, mt, um, fs, sv, cf, tui>>

\* "Unmount the bottle": the test and the call
CleanupInfo(t) ==
    /\ Alive
    /\ th.cl[t] = "info"
    /\ IF ~reg.currentMountInfo.nil
       THEN /\ UnmountBegin(t, reg.currentMountInfo)
            /\ th' = [th EXCEPT !.cl[t] = "unmount", !.uminv = TRUE]
       ELSE /\ th' = [th EXCEPT !.cl[t] = "unlock"]
            /\ UNCHANGED um
    /\ UNCHANGED <<kernel, mt, fs, sv, cf, tui, reg, child>>

\* the unmount returned, its error dropped: currentMountInfo = nil
CleanupUnmounted(t) ==
    /\ Alive
    /\ th.cl[t] = "unmount"
    /\ um[t].pc = "done"
    /\ reg' = [reg EXCEPT !.currentMountInfo = NilPtr]
    /\ um' = [um EXCEPT ![t] = UmIdle]
    /\ th' = [th EXCEPT !.cl[t] = "unlock"]
    /\ UNCHANGED <<kernel, mt, fs, sv, cf, tui, child>>

\* the deferred mountMutex.Unlock(); f returned, the Once is done
CleanupUnlock(t) ==
    /\ Alive
    /\ th.cl[t] = "unlock"
    /\ reg' = [reg EXCEPT !.mountMutex = "free", !.cleanupOnce = "done"]
    /\ th' = [th EXCEPT !.cl[t] = "after"]
    /\ UNCHANGED <<kernel, mt, um, fs, sv, cf, tui, child>>

\* after performCleanup: os.Exit in the signal goroutine, os.Exit(1) or
\* the re-panic in main
CleanupExit(t) ==
    /\ Alive
    /\ th.cl[t] = "after"
    /\ th' = IF t = "sig"
             THEN [th EXCEPT !.exit = "signal", !.code = SignalExit(th.mode, th.recv)]
             ELSE [th EXCEPT !.exit = "1"]
    /\ UNCHANGED <<kernel, mt, um, fs, sv, cf, tui, reg, child>>

(***************************************************************************)
(* cmdRun                                                                  *)
(***************************************************************************)
CliAt(pc) == Alive /\ th.mode = "cli" /\ th.main = pc

\* udisksMountBottle(bottle, "")
CliMountBegin ==
    /\ CliAt("cli.start")
    /\ MountBegin("m1")
    /\ mt'["m1"].variant = "password" /\ mt'["m1"].password = ""
    /\ th' = [th EXCEPT !.main = "cli.mount"]
    /\ UNCHANGED <<um, fs, sv, cf, tui, reg, child>>

\* if err != nil { return err }
CliMounted ==
    /\ CliAt("cli.mount")
    /\ mt["m1"].pc = "done"
    /\ th' = IF mt["m1"].ret.kind = "err"
             THEN [th EXCEPT !.main = "exited", !.exit = "1"]
             ELSE [th EXCEPT !.main = "cli.setinfo", !.info = Ptr(mt["m1"].ret.info)]
    /\ mt' = [mt EXCEPT !["m1"] = MtReset(mt["m1"])]
    /\ UNCHANGED <<kernel, um, fs, sv, cf, tui, reg, child>>

\* SetCurrentMountInfo(mountInfo)
CliSetInfo ==
    /\ CliAt("cli.setinfo")
    /\ MutexFree
    /\ reg' = SetCurrentMountInfo(reg, th.info)
    /\ th' = [th EXCEPT !.main = "cli.setup"]
    /\ UNCHANGED <<kernel, mt, um, fs, sv, cf, tui, child>>

\* setupSignalHandlerCLI(), buildFlatpakCommand
CliSetupSignals ==
    /\ CliAt("cli.setup")
    /\ th' = [th EXCEPT !.main = "cli.setcmd", !.sig = "wait"]
    /\ child' = [ChildNone EXCEPT !.state = "built"]
    /\ UNCHANGED <<kernel, mt, um, fs, sv, cf, tui, reg>>

\* SetCurrentRunningCmd(cmd)
CliSetCmd ==
    /\ CliAt("cli.setcmd")
    /\ MutexFree
    /\ reg' = SetCurrentRunningCmd(reg, "cmd")
    /\ th' = [th EXCEPT !.main = "cli.run"]
    /\ UNCHANGED <<kernel, mt, um, fs, sv, cf, tui, child>>

\* cmd.Run(): the start of the process, or its failure
CliStart ==
    /\ CliAt("cli.run")
    /\ \E ok \in BOOLEAN :
        /\ child' = IF ok THEN [child EXCEPT !.state = "running"] ELSE child
        /\ th' = [th EXCEPT !.main = IF ok THEN "cli.wait" ELSE "cli.defer"]
    /\ UNCHANGED <<kernel, mt, um, fs, sv, cf, tui, reg>>

\* cmd.Run() returns when the application has ended
CliWaitReturns ==
    /\ CliAt("cli.wait")
    /\ child.state = "exited"
    /\ th' = [th EXCEPT !.main = "cli.defer"]
    /\ UNCHANGED <<kernel, mt, um, fs, sv, cf, tui, reg, child>>

\* deferred: SetCurrentRunningCmd(nil)
CliDeferCmd ==
    /\ CliAt("cli.defer")
    /\ MutexFree
    /\ reg' = SetCurrentRunningCmd(reg, "nil")
    /\ th' = [th EXCEPT !.main = "cli.defer2"]
    /\ UNCHANGED <<kernel, mt, um, fs, sv, cf, tui, child>>

\* deferred: SetCurrentMountInfo(nil), then the call of udisksUnmountBottle
CliDeferInfo ==
    /\ CliAt("cli.defer2")
    /\ MutexFree
    /\ reg' = SetCurrentMountInfo(reg, NilPtr)
    /\ UnmountBegin("main", th.info)
    /\ th' = [th EXCEPT !.main = "cli.unmount", !.uminv = TRUE]
    /\ UNCHANGED <<kernel, mt, fs, sv, cf, tui, child>>

\* udisksUnmountBottle returned; cmdRun returns, main exits
CliUnmounted ==
    /\ CliAt("cli.unmount")
    /\ um["main"].pc = "done"
    /\ \E code \in {"0", "1"} : th' = [th EXCEPT !.main = "exited", !.exit = code]
    /\ um' = [um EXCEPT !["main"] = UmIdle]
    /\ UNCHANGED <<kernel, mt, fs, sv, cf, tui, reg, child>>

(***************************************************************************)
(* The process as a whole                                                  *)
(***************************************************************************)
\* the TUI: setupSignalHandler ran before p.Run; the CLI: cmdRun begins
InitLife ==
    /\ kernel \in {k \in KernelStates : k.crypt = "" \/ k.mount # ""}
    /\ mt = [t \in MountTasks |-> MtIdle]
    /\ um = [t \in UmThreads |-> UmIdle]
    /\ fs = NoFs
    /\ sv = SvIdle
    /\ \E p \in BottleConfigs : cf = [CfIdle EXCEPT !.p = p]
    /\ tui = TuiIdle
    /\ reg = RegIdle
    /\ child = ChildNone
    /\ th \in {[ThOff EXCEPT !.mode = "tui", !.main = "loop", !.sig = "wait"],
               [ThOff EXCEPT !.mode = "cli", !.main = "cli.start"]}

\* a mount sequence of this process handed back the MountInfo of a bottle
\* it mounted itself
HandedBack(t) == kernel.mount = "" /\ kernel'.mount # "" /\ mt'[t].ret.kind = "ok"

mountStepOnly == <<um, fs, sv, cf, tui, reg, child>>
unmountStepOnly == <<mt, fs, sv, cf, tui, reg, child, th>>

\* in these runs no key but a quit key is typed into the loading screen
LifeStep ==
    \/ ~tui.loading /\ LaunchConfirmEnter
    \/ \E value \in Passwords : ~tui.loading /\ PasswordKey(value)
    \/ ~tui.loading /\ PasswordEnter
    \/ ~tui.loading /\ FIDO2Unlock
    \/ ~tui.loading /\ UnlockEsc
    \/ \E t \in MountTasks : MountCmdStart(t)
    \/ \E t \in MountTasks : GetSecretFails(t)
    \/ \E t \in MountTasks : Alive /\ LoopSetup(t) /\ UNCHANGED mountStepOnly /\ UNCHANGED th
    \/ \E t \in MountTasks : Alive /\ Unlock(t) /\ UNCHANGED mountStepOnly /\ UNCHANGED th
    \/ \E t \in MountTasks : Alive /\ Mount(t) /\ UNCHANGED mountStepOnly
                                /\ th' = [th EXCEPT !.ours = @ \/ HandedBack(t),
                                                 !.uminv = @ /\ ~HandedBack(t)]
    \/ \E t \in MountTasks : Alive /\ ReLock(t) /\ UNCHANGED mountStepOnly /\ UNCHANGED th
    \/ \E t \in MountTasks : Alive /\ ReUnlock(t) /\ UNCHANGED mountStepOnly /\ UNCHANGED th
    \/ \E t \in MountTasks : Alive /\ ReMount(t) /\ UNCHANGED mountStepOnly
                                /\ th' = [th EXCEPT !.ours = @ \/ HandedBack(t),
                                                 !.uminv = @ /\ ~HandedBack(t)]
    \/ \E t \in MountTasks : OnMountSuccess(t)
    \/ \E t \in MountTasks : OnMountFailed(t)
    \/ TuiExec
    \/ ChildExits
    \/ OnAppFinished
    \/ OnAppFinishedReturn
    \/ QuitKey
    \/ QuitReturn
    \/ ~tui.loading /\ ErrorDismiss
    \/ RunFails
    \/ \E t \in Threads : Alive /\ UmSync(t) /\ UNCHANGED unmountStepOnly
    \/ \E t \in Threads : Alive /\ UmUnmount(t) /\ UNCHANGED unmountStepOnly
    \/ \E t \in Threads : Alive /\ UmForceUnmount(t) /\ UNCHANGED unmountStepOnly
    \/ \E t \in Threads : Alive /\ UmLock(t) /\ UNCHANGED unmountStepOnly
    \/ \E t \in Threads : Alive /\ UmLoopDelete(t) /\ UNCHANGED unmountStepOnly
    \/ SigReceive
    \/ \E t \in Threads : CleanupOnceDo(t)
    \/ \E t \in Threads : CleanupLock(t)
    \/ \E t \in Threads : CleanupChild(t)
    \/ \E t \in Threads : CleanupKill(t)
    \/ \E t \in Threads : CleanupInfo(t)
    \/ \E t \in Threads : CleanupUnmounted(t)
    \/ \E t \in Threads : CleanupUnlock(t)
    \/ \E t \in Threads : CleanupExit(t)
    \/ CliMountBegin
    \/ CliMounted
    \/ CliSetInfo
    \/ CliSetupSignals
    \/ CliSetCmd
    \/ CliStart
    \/ CliWaitReturns
    \/ CliDeferCmd
    \/ CliDeferInfo
    \/ CliUnmounted

\* in these runs the signal sent is SIGTERM
NextLife ==
    \/ LifeStep
    \/ SignalArrives({SIGTERM})

SpecLife == InitLife /\ [][NextLife]_vars

\* a step of performCleanup in thread t, its unmount sequence included
CleanupStep(t) ==
    \/ CleanupOnceDo(t)
    \/ CleanupLock(t)
    \/ CleanupChild(t)
    \/ CleanupKill(t)
    \/ CleanupInfo(t)
    \/ CleanupUnmounted(t)
    \/ CleanupUnlock(t)
    \/ CleanupExit(t)
    \/ Alive /\ UmSync(t) /\ UNCHANGED unmountStepOnly
    \/ Alive /\ UmUnmount(t) /\ UNCHANGED unmountStepOnly
    \/ Alive /\ UmForceUnmount(t) /\ UNCHANGED unmountStepOnly
    \/ Alive /\ UmLock(t) /\ UNCHANGED unmountStepOnly
    \/ Alive /\ UmLoopDelete(t) /\ UNCHANGED unmountStepOnly

\* while the handler goroutine can receive, or a goroutine can go on with
\* performCleanup or with the tool call it waits for, one of them does
SpecLifeFair ==
    SpecLife /\ WF_vars(SigReceive \/ \E t \in Threads : CleanupStep(t))

(***************************************************************************)
(* The process with each of the signals: the TUI before a launch, and      *)
(* `bottle-launch run` on a password bottle                                *)
(***************************************************************************)
InitSignal == InitLife /\ cf.p = defaultPermissions

NextSignal ==
    \/ QuitKey
    \/ CliMountBegin
    \/ \E t \in MountTasks : Alive /\ LoopSetup(t) /\ UNCHANGED mountStepOnly /\ UNCHANGED th
    \/ \E t \in MountTasks : Alive /\ Unlock(t) /\ UNCHANGED mountStepOnly /\ UNCHANGED th
    \/ \E t \in MountTasks : Alive /\ Mount(t) /\ UNCHANGED mountStepOnly
                                /\ th' = [th EXCEPT !.ours = @ \/ HandedBack(t),
                                                 !.uminv = @ /\ ~HandedBack(t)]
    \/ \E t \in MountTasks : Alive /\ ReLock(t) /\ UNCHANGED mountStepOnly /\ UNCHANGED th
    \/ \E t \in MountTasks : Alive /\ ReUnlock(t) /\ UNCHANGED mountStepOnly /\ UNCHANGED th
    \/ \E t \in MountTasks : Alive /\ ReMount(t) /\ UNCHANGED mountStepOnly
                                /\ th' = [th EXCEPT !.ours = @ \/ HandedBack(t),
                                                 !.uminv = @ /\ ~HandedBack(t)]
    \/ CliMounted
    \/ CliSetInfo
    \/ CliSetupSignals
    \/ CliSetCmd
    \/ CliStart
    \/ ChildExits
    \/ CliWaitReturns
    \/ CliDeferCmd
    \/ CliDeferInfo
    \/ CliUnmounted
    \/ \E t \in Threads : Alive /\ UmSync(t) /\ UNCHANGED unmountStepOnly
    \/ \E t \in Threads : Alive /\ UmUnmount(t) /\ UNCHANGED unmountStepOnly
    \/ \E t \in Threads : Alive /\ UmForceUnmount(t) /\ UNCHANGED unmountStepOnly
    \/ \E t \in Threads : Alive /\ UmLock(t) /\ UNCHANGED unmountStepOnly
    \/ \E t \in Threads : Alive /\ UmLoopDelete(t) /\ UNCHANGED unmountStepOnly
    \/ SignalArrives({SIGHUP, SIGINT, SIGQUIT, SIGTERM})
    \/ SigReceive
    \/ \E t \in Threads : CleanupOnceDo(t)
    \/ \E t \in Threads : CleanupLock(t)
    \/ \E t \in Threads : CleanupChild(t)
    \/ \E t \in Threads : CleanupKill(t)
    \/ \E t \in Threads : CleanupInfo(t)
    \/ \E t \in Threads : CleanupUnmounted(t)
    \/ \E t \in Threads : CleanupUnlock(t)
    \/ \E t \in Threads : CleanupExit(t)

SpecSignal == InitSignal /\ [][NextSignal]_vars

(***************************************************************************)
(* The launch dialogue with keys at any time and two command goroutines,   *)
(* up to the start of the application                                      *)
(***************************************************************************)
Goroutines == {"m1", "m2"}

InitDispatch ==
    /\ kernel \in {k \in KernelStates : k.crypt = "" \/ k.mount # ""}
    /\ mt = [t \in Goroutines |-> MtIdle]
    /\ um = [t \in UmThreads |-> UmIdle]
    /\ fs = NoFs
    /\ sv = SvIdle
    /\ \E p \in BottleConfigs : cf = [CfIdle EXCEPT !.p = p]
    /\ tui = TuiIdle
    /\ reg = RegIdle
    /\ child = ChildNone
    /\ th = [ThOff EXCEPT !.mode = "tui", !.main = "loop", !.sig = "wait"]

NextDispatch ==
    \/ LaunchConfirmEnter
    \/ \E value \in Passwords : PasswordKey(value)
    \/ PasswordEnter
    \/ FIDO2Unlock
    \/ UnlockEsc
    \/ ErrorDismiss
    \/ \E t \in Goroutines : MountCmdStart(t)
    \/ \E t \in Goroutines : GetSecretFails(t)
    \/ \E t \in Goroutines : LoopSetup(t) /\ UNCHANGED mountStepOnly /\ UNCHANGED th
    \/ \E t \in Goroutines : Unlock(t) /\ UNCHANGED mountStepOnly /\ UNCHANGED th
    \/ \E t \in Goroutines : Mount(t) /\ UNCHANGED mountStepOnly /\ UNCHANGED th
    \/ \E t \in Goroutines : ReLock(t) /\ UNCHANGED mountStepOnly /\ UNCHANGED th
    \/ \E t \in Goroutines : ReUnlock(t) /\ UNCHANGED mountStepOnly /\ UNCHANGED th
    \/ \E t \in Goroutines : ReMount(t) /\ UNCHANGED mountStepOnly /\ UNCHANGED th
    \/ \E t \in Goroutines : OnMountSuccess(t)
    \/ \E t \in Goroutines : OnMountFailed(t)

SpecDispatch == InitDispatch /\ [][NextDispatch]_vars

(***************************************************************************)
(* Properties of the mount sequence (SpecMount)                            *)
(***************************************************************************)
Count(seq, S) == Cardinality({i \in 1..Len(seq) : seq[i] \in S})

IsPrefix(a, b) == Len(a) <= Len(b) /\ \A i \in 1..Len(a) : a[i] = b[i]

\* the calls made after the first mount call of the invocation
AfterFirstMount(calls) ==
    LET at == {i \in 1..Len(calls) : calls[i] = "mount"}
    IN  IF at = {} THEN << >>
        ELSE SubSeq(calls, (CHOOSE i \in at : \A j \in at : i <= j) + 1, Len(calls))

\* C1: when the mount sequence has returned, with success or with any error,
\* the bottle is not unlocked-but-unmounted.  Stated for the returns of an
\* invocation that found no cleartext device and issued at least one call,
\* so that the cleartext device is one this invocation created.
C1_NeverLeftUnlockedUnmounted ==
    \A t \in MountTasks :
        (mt[t].pc = "done" /\ mt[t].probe0.CleartextDevice = "" /\ mt[t].calls # << >>)
            => ~(kernel.crypt # "" /\ kernel.mount = "")

\* C2: the mount sequence invoked on a bottle the locator reports as fully
\* mounted returns exactly the probed MountState and issues no loop-setup,
\* unlock or mount call; invoked again after such a return it returns the
\* identical MountState, again with no call (unless filepath.Abs itself fails,
\* in which case the locator is never consulted).
C2_AlreadyMountedIdempotent ==
    \A t \in MountTasks :
        LET task == mt[t] IN
        /\ (task.n > 0 /\ AlreadyMounted(task.probe0))
              => /\ task.pc = "done"
                 /\ task.calls = << >>
                 /\ task.ret = RetOk(task.probe0)
                 /\ task.ret.info.LoopDevice = kernel.loop
                 /\ task.ret.info.CleartextDevice = kernel.crypt
                 /\ task.ret.info.MountPoint = kernel.mount
        /\ (task.n > 0 /\ task.prevOk # NoRet /\ task.prevCalls = << >>
                /\ task.ret # RetErr(OsError))
              => (task.pc = "done" /\ task.ret = task.prevOk /\ task.calls = << >>)

C2_Witness ==
    \E t \in MountTasks :
        /\ mt[t].pc = "done" /\ mt[t].n = 2
        /\ mt[t].prevOk # NoRet /\ mt[t].prevCalls = << >>
        /\ mt[t].ret = mt[t].prevOk /\ mt[t].calls = << >>
        /\ AlreadyMounted(mt[t].ret.info)

\* C3: after a mount call that failed with the stale-mapping diagnostic the
\* recovery runs once: the calls that follow the first mount call are always
\* a prefix of lock, unlock, mount, and the recovery starts only on that
\* diagnostic.  The sequence returns before the retried mount only when the
\* key file or the re-unlock failed.  When the retried mount fails the
\* sequence has returned the mount error carrying that call's output and
\* issues no further call.
C3_OneRecoveryCycle ==
    \A t \in MountTasks :
        LET task == mt[t]
            tail == AfterFirstMount(task.calls)
            cycle == <<"lock", UnlockForm(task), "mount">>
        IN  /\ IsPrefix(tail, cycle)
            /\ Count(task.calls, {"lock"}) <= 1
            /\ Count(task.calls, {"mount"}) <= 2
            /\ (tail # << >>) => task.stale1
            /\ (task.stale1 /\ task.pc = "done") =>
                  /\ tail # << >>
                  /\ Len(tail) = 1 => task.ret = RetErr(OsError)
                  /\ Len(tail) = 2 => (task.ret.kind = "err" /\ task.ret.err.op = "unlock")
            /\ (task.re.at = "failed") =>
                  /\ task.pc = "done"
                  /\ tail = cycle
                  /\ task.ret = RetErr(MountError("mount", task.re.out))

C3_Witness ==
    \E t \in MountTasks :
        /\ mt[t].pc = "done" /\ mt[t].stale1 /\ mt[t].re.at = "failed"
        /\ mt[t].re.out # << >>
        /\ mt[t].calls = <<"loop-setup", UnlockForm(mt[t]), "mount", "lock", UnlockForm(mt[t]), "mount">>

\* C8: a failed unlock (the unlock step, not the recovery's re-unlock) whose
\* output contains one of the wrong-credential phrases returns the
\* wrong-credential error (errWrongPassword, which mountBottleCmd reports as
\* wrongPassword; for a FIDO2 bottle the wrong-YubiKey error); a failed
\* unlock with any other output returns the unlock error carrying that
\* output, which mountBottleCmd does not report as wrongPassword.
C8_WrongCredentialClassification ==
    \A t \in MountTasks :
        LET task == mt[t] IN
        (task.ufail.at = "unlock") =>
            /\ task.pc = "done"
            /\ task.ret.kind = "err"
            /\ IF \E ph \in WrongKeyPhrases : Contains(task.ufail.out, ph)
               THEN IF task.variant = "password"
                    THEN /\ task.ret.err = errWrongPassword
                         /\ MountBottleMsg(task.ret).wrongPassword
                    ELSE /\ task.ret.err.op = "unlock"
                         /\ task.ret.err.msg = <<"wrong YubiKey - use the key that created this bottle">>
               ELSE /\ task.ret.err = MountError("unlock", task.ufail.out)
                    /\ task.variant = "password" => ~MountBottleMsg(task.ret).wrongPassword

C8_Witness ==
    \E t \in MountTasks :
        /\ mt[t].pc = "done" /\ mt[t].ufail.at = "unlock"
        /\ mt[t].ufail.out = <<"Not authorized", "No key available">>
        /\ mt[t].ret.err = errWrongPassword

(***************************************************************************)
(* Properties of the unmount sequence (SpecUnmount)                        *)
(***************************************************************************)
EmptyState(ptr) ==
    ptr.nil \/ (ptr.v.LoopDevice = "" /\ ptr.v.CleartextDevice = "" /\ ptr.v.MountPoint = "")

\* C9: the unmount sequence called with nil, or with a MountInfo whose loop
\* device, cleartext device and mount point are all empty, returns success
\* and issues no external command.
C9_EmptyUnmountIsNoOp ==
    \A t \in UmThreads :
        (um[t].pc # "idle" /\ EmptyState(um[t].arg))
            => (um[t].pc = "done" /\ um[t].ret = RetNil /\ um[t].calls = << >>)

C9_Witness ==
    \E t \in UmThreads :
        /\ um[t].pc = "done" /\ ~um[t].arg.nil /\ EmptyState(um[t].arg)
        /\ um[t].arg.v.BottlePath # ""
        /\ um[t].ret = RetNil /\ um[t].calls = << >>

Rank(op) ==
    CASE op = "sync" -> 1
      [] op = "unmount" -> 2
      [] op = "unmount --force" -> 3
      [] op = "lock" -> 4
      [] op = "loop-delete" -> 5

\* C10: the unmount sequence issues its calls only in the order sync,
\* unmount, lock, loop-delete (sync, unmount and loop-delete at most once
\* each), and a failed sync changes nothing of what follows: the unmount is
\* still attempted, the lock is attempted unless the unmount failed, and the
\* detach is attempted unless the unmount or the lock failed.
C10_ReverseOrderBestEffort ==
    \A t \in UmThreads :
        LET u == um[t]
            info == u.arg.v
            failedAt(op) == u.ret.kind = "err" /\ u.ret.err.op = op
        IN  /\ \A i, j \in 1..Len(u.calls) : i < j => Rank(u.calls[i]) <= Rank(u.calls[j])
            /\ Count(u.calls, {"sync"}) <= 1
            /\ Count(u.calls, {"unmount"}) <= 1
            /\ Count(u.calls, {"loop-delete"}) <= 1
            /\ (u.pc = "done" /\ u.syncFailed) =>
                  /\ info.CleartextDevice # "" => Count(u.calls, {"unmount"}) = 1
                  /\ (info.LoopDevice # "" /\ ~failedAt("unmount")) => Count(u.calls, {"lock"}) >= 1
                  /\ (info.LoopDevice # "" /\ ~failedAt("unmount") /\ ~failedAt("lock"))
                        => Count(u.calls, {"loop-delete"}) = 1

C10_Witness ==
    \E t \in UmThreads :
        /\ um[t].pc = "done" /\ um[t].syncFailed /\ um[t].ret = RetNil
        /\ um[t].calls = <<"sync", "unmount", "lock", "loop-delete">>
        /\ kernel = NoKernel

\* C11: when the first unmount call fails a forced unmount is attempted
\* exactly once; when that fails too the sequence returns an unmount error
\* with no lock and no loop-delete issued; when either attempt succeeds the
\* sequence goes on to the lock step (which a MountInfo with a loop device
\* has).
C11_ForcedUnmountOnce ==
    \A t \in UmThreads :
        LET u == um[t]
            forced == Count(u.calls, {"unmount --force"})
        IN  /\ forced = (IF u.ufails >= 1 /\ u.pc # "forceunmount" THEN 1 ELSE 0)
            /\ u.pc = "forceunmount" <=> (u.ufails = 1 /\ forced = 0)
            /\ u.ufails = 2 =>
                  /\ u.pc = "done" /\ u.ret.kind = "err" /\ u.ret.err.op = "unmount"
                  /\ Count(u.calls, {"lock", "loop-delete"}) = 0
            /\ (Count(u.calls, {"unmount"}) = 1 /\ u.ufails < 2 /\ u.pc # "forceunmount"
                    /\ u.arg.v.LoopDevice # "")
                  => (u.pc = "lock" \/ Count(u.calls, {"lock"}) >= 1)

\* the first attempt failed, the forced one succeeded, the lock went on
C11_Witness ==
    \E t \in UmThreads :
        /\ um[t].ufails = 1
        /\ um[t].calls = <<"sync", "unmount", "unmount --force", "lock">>

C12_LockBounded ==
    \A t \in UmThreads :
        LET u == um[t]
            locks == Count(u.calls, {"lock"})
        IN  /\ locks <= UnmountRetryCount
            /\ u.sleeps = (IF locks = 0 THEN 0 ELSE locks - 1)
            /\ locks - u.lfails \in {0, 1}
            /\ locks - u.lfails = 1 => u.pc # "lock"
            /\ u.lfails = UnmountRetryCount =>
                  /\ u.pc = "done" /\ u.ret.kind = "err" /\ u.ret.err.op = "lock"
                  /\ Count(u.calls, {"loop-delete"}) = 0
            /\ (u.pc = "done" /\ u.ret.kind = "err" /\ u.ret.err.op = "lock")
                  => u.lfails = UnmountRetryCount

\* C12: the lock step is attempted at most UnmountRetryCount (3) times,
\* stops at the first success and sleeps only between attempts; when every
\* attempt fails the sequence returns a lock error and does not detach the
\* loop device; and, every external call returning, a sequence that was
\* started ends.
C12_LockRetryTerminates ==
    /\ []C12_LockBounded
    /\ \A t \in {"main"} : (um[t].pc # "idle") ~> (um[t].pc = "done")

\* two failed attempts, then a success after the second sleep
C12_Witness ==
    \E t \in UmThreads :
        /\ um[t].pc = "done" /\ um[t].ret = RetNil
        /\ um[t].lfails = 2 /\ um[t].sleeps = 2
        /\ Count(um[t].calls, {"lock"}) = 3 /\ Count(um[t].calls, {"loop-delete"}) = 1

\* MountPoint # "" => CleartextDevice # "" => LoopDevice # ""
Chain(info) ==
    /\ info.MountPoint # "" => info.CleartextDevice # ""
    /\ info.CleartextDevice # "" => info.LoopDevice # ""

ChainAt(ptr) == ptr # NilPtr => Chain(ptr.v)

\* C14: every MountInfo the process holds, returned by a mount sequence or
\* built by the launch path from the probes, satisfies the chain
\* MountPoint set => CleartextDevice set => LoopDevice set, and a successful
\* mount returns all three fields non-empty.
C14_MountInfoChain ==
    /\ \A t \in MountTasks :
          mt[t].ret.kind = "ok"
              => /\ mt[t].ret.info.LoopDevice # ""
                 /\ mt[t].ret.info.CleartextDevice # ""
                 /\ mt[t].ret.info.MountPoint # ""
    /\ ChainAt(tui.mountInfo)
    /\ ChainAt(reg.currentMountInfo)
    /\ ChainAt(th.info)
    /\ \A t \in UmThreads : ChainAt(um[t].arg)

\* a mount sequence that attached, unlocked and mounted has returned its
\* MountInfo to the interface waiting for it
C14_Witness ==
    /\ tui.loading
    /\ mt["m1"].ret.kind = "ok"
    /\ Count(mt["m1"].calls, {"loop-setup", "unlock", "mount"}) = 3
    /\ Chain(mt["m1"].ret.info)

\* C13: when the mount sequence succeeded for the bottle and the unmount
\* sequence, run on the MountInfo it returned, returns success, the device
\* locator finds nothing for the file: no loop device, no cleartext device,
\* no mount point.
C13_MountUnmountRoundTrip ==
    (um["main"].pc = "done" /\ um["main"].ret = RetNil)
        => LET found == Probe(kernel)
           IN  found.LoopDevice = "" /\ found.CleartextDevice = "" /\ found.MountPoint = ""

\* the mount sequence attached, unlocked and mounted; the unmount undid it
C13_Witness ==
    /\ mt["m1"].ret.kind = "ok"
    /\ Count(mt["m1"].calls, {"loop-setup"}) = 1
    /\ um["main"].pc = "done" /\ um["main"].ret = RetNil
    /\ um["main"].arg = Ptr(mt["m1"].ret.info)
    /\ Probe(kernel).LoopDevice = ""

\* C16: on every path that unlocks a bottle, the interface's launch and the
\* command-line run, a config with one or two of the three FIDO2 fields set
\* stops the launch: no mount sequence of the password variant issues an
\* unlock for such a bottle.
C16_NoPasswordUnlockWhenCorrupted ==
    (IsFIDO2Bottle(cf.p).err # "nil")
        => \A t \in MountTasks :
              ~(mt[t].variant = "password" /\ Count(mt[t].calls, {"unlock"}) > 0)

\* the mount and unmount sequences the interface has dispatched whose
\* completion it has not yet received
InFlight ==
    Cardinality({t \in DOMAIN mt : mt[t].pc # "idle"})
    + (IF tui.cmd # "none" THEN 1 ELSE 0)
    + (IF um["main"].pc \notin {"idle", "done"} THEN 1 ELSE 0)

\* C21: at most one mount or unmount sequence issued by the interactive
\* session is in flight at any time: no mount command is dispatched while
\* an earlier one has not delivered its completion.
C21_OneMutationInFlight == InFlight <= 1

(***************************************************************************)
(* Properties of the Permissions value (SpecConfig)                        *)
(***************************************************************************)
\* the FIDO2 fields of p that are set, the device hint aside
FieldsSet(p) ==
    {f \in {"FIDO2BottleID", "FIDO2CredentialID", "FIDO2Salt"} : p[f] # << >>}

\* C15: IsFIDO2Bottle returns (true, nil) exactly when bottle ID, credential
\* ID and salt are all set, (false, nil) exactly when none is, and the
\* corrupted-config error exactly when one or two are; a partial config is
\* never reported as a password bottle, and the device hint has no influence.
C15_CredentialMode ==
    (cf.res # NoCheck) =>
        /\ (cf.res = [isFIDO2 |-> TRUE, err |-> "nil"]) <=> (Cardinality(FieldsSet(cf.p)) = 3)
        /\ (cf.res = [isFIDO2 |-> FALSE, err |-> "nil"]) <=> (Cardinality(FieldsSet(cf.p)) = 0)
        /\ (cf.res.err = "config corrupted") <=> (Cardinality(FieldsSet(cf.p)) \in {1, 2})
        /\ \A h \in Ids : IsFIDO2Bottle([cf.p EXCEPT !.FIDO2DeviceHint = h]) = cf.res

\* a config with the salt alone (and a device hint) was classified
C15_Witness ==
    /\ cf.res.err = "config corrupted"
    /\ FieldsSet(cf.p) = {"FIDO2Salt"}
    /\ cf.p.FIDO2DeviceHint # << >>

\* C17: saving a Permissions value and loading the file back yields a value
\* equal in every field: the seven flags, LastApp (any string) and the
\* FIDO2 fields.
C17_SaveLoadRoundTrip == (cf.pc = "reloaded") => (cf.loaded = cf.p)

KnownKeys ==
    {"PREF_NETWORK", "PREF_AUDIO", "PREF_GPU", "PREF_WAYLAND", "PREF_X11",
     "PREF_CAMERA", "PREF_PORTALS", "PREF_LAST_APP", "FIDO2_BOTTLE_ID",
     "FIDO2_CREDENTIAL_ID", "FIDO2_SALT", "FIDO2_DEVICE_HINT"}

\* the tokens of a line that are not spaces
Words(line) == SelectSeq(line, LAMBDA x : x # " ")

\* blank, a comment, without "=", or with an unknown key before the "="
Ignorable(line) ==
    LET w == Words(line)
    IN  \/ w = << >>
        \/ w[1] = "#"
        \/ \A i \in 1..Len(w) : w[i] # "="
        \/ ~(Len(w) >= 2 /\ w[1] \in KnownKeys /\ w[2] = "=")

RemoveAt(seq, i) == SubSeq(seq, 1, i - 1) \o SubSeq(seq, i + 1, Len(seq))

\* C19: loadPermissions always returns a Permissions value; a missing file
\* gives the defaults; a line that is blank, a comment, unparseable or has
\* an unknown key is ignored: the result is the one of the file without it.
C19_LoadNeverFails ==
    (cf.pc = "loaded") =>
        /\ DOMAIN cf.loaded = DOMAIN defaultPermissions
        /\ ~cf.file.exists => cf.loaded = defaultPermissions
        /\ \A i \in 1..Len(cf.file.lines) :
              Ignorable(cf.file.lines[i])
                  => cf.loaded = loadPermissions(File(RemoveAt(cf.file.lines, i)))

\* a file with an unknown key and a line that changed a field was loaded
C19_Witness ==
    /\ cf.pc = "loaded"
    /\ \E i \in 1..Len(cf.file.lines) : cf.file.lines[i] = <<"BOGUS", "=", "1">>
    /\ cf.loaded # defaultPermissions

(***************************************************************************)
(* Properties of the config store (SpecSave)                               *)
(***************************************************************************)
\* the versions a reader may find: the file of an earlier run, and every
\* content a save of this run was given
Versions == {Content(v) : v \in 0..sv.ver}

C18_RenameAfterBothFlushes == sv.renamed => (sv.synced /\ sv.dirsynced)

\* C18 (amended): the full content is written to a temporary file in the
\* target's directory and the temporary file is flushed before it is renamed
\* onto the target; the parent directory is flushed only after the rename.
C18_RenameAfterFileFlush ==
    /\ sv.pc \in {"write", "sync", "rename"} => fs.dir.tmp = sv.ino
    /\ sv.pc = "dirsync" => (fs.dir.cfg = sv.ino /\ fs.dir.tmp = 0)
    /\ sv.renamed => (sv.synced /\ sv.written = NumLines)
    /\ sv.dirsynced => sv.renamed

\* a save that flushed the file, renamed it, flushed the directory, returned
C18_Witness ==
    /\ sv.pc = "done" /\ sv.ret = RetNil
    /\ sv.synced /\ sv.renamed /\ sv.dirsynced

(***************************************************************************)
(* Properties of the process (SpecLife)                                    *)
(***************************************************************************)
\* the TUI is between two messages, no mount goroutine is running or
\* waiting to be heard, and no cleanup has begun
Quiet ==
    /\ TuiReady
    /\ tui.cmd = "none"
    /\ \A t \in MountTasks : mt[t].pc = "idle"
    /\ \A t \in Threads : th.cl[t] = "idle"

\* C5: a volume is never left mounted-but-unreferenced: whenever a bottle
\* this process mounted is still mounted, the process still holds its
\* MountState, in the TUI model's mountInfo and in the registry's
\* currentMountInfo; the reference is dropped only once the bottle has been
\* unmounted.
C5_NeverMountedUnreferenced ==
    (Quiet /\ th.ours /\ kernel.mount # "")
        => (~tui.mountInfo.nil /\ ~reg.currentMountInfo.nil)

\* the steps of the function cleanupOnce guards
CleanupBody == {"lock", "child", "kill", "info", "unmount", "unlock"}

\* C6: the cleanup sequence (terminate the child, unmount the registered
\* state) is executed at most once per process, however many termination
\* signals arrive and however many callers (the signal goroutine, the TUI
\* error path, the panic path) call performCleanup concurrently.
C6_CleanupAtMostOnce ==
    /\ reg.runs <= 1
    /\ Cardinality({t \in Threads : th.cl[t] \in CleanupBody}) <= 1
    /\ (\E t \in Threads : th.cl[t] \in CleanupBody) => reg.cleanupOnce = "running"

\* both callers went through performCleanup, one of them without running
\* the sequence, and a second signal has arrived
C6_Witness ==
    /\ th.cl["main"] = "after"
    /\ th.cl["sig"] = "after"
    /\ th.sigch # 0
    /\ reg.runs = 1

\* C7: in the cleanup sequence the registered child process is terminated
\* first (graceful signal, grace period, forced kill) and the unmount of the
\* registered MountState starts only after that: the unmount never starts
\* while a registered child has not been sent the kill.
C7_ChildKilledBeforeUnmount ==
    \A t \in Threads :
        (th.cl[t] = "unmount" /\ reg.currentRunningCmd # "nil") => child.kill

\* the positions of performCleanup between mountMutex.Lock() and the
\* deferred Unlock(), where it reads and writes the registry
CleanupLocked == {"child", "kill", "info", "unmount", "unlock"}

\* the registry values the mutex protects
Registry(r) == <<r.currentMountInfo, r.currentRunningCmd>>

\* C22: every read and every write of the registry (currentMountInfo,
\* currentRunningCmd), by the TUI or CLI control logic and by the cleanup, is
\* performed while holding mountMutex: a step that changes the registry is
\* taken by the holder of the mutex or, for the Set functions, with the mutex
\* free to take, and the cleanup is between its test of the registry and
\* its last write only as the holder.
C22_RegistryUnderMutex ==
    [][/\ Registry(reg') # Registry(reg) =>
            \/ reg.mountMutex = "free"
            \/ \E t \in Threads : reg.mountMutex = t /\ th'.cl[t] # th.cl[t]
       /\ \A t \in Threads : th.cl[t] \in CleanupLocked => reg.mountMutex = t]_vars

\* the cleanup holds the mutex with a bottle registered while the CLI's
\* deferred SetCurrentRunningCmd(nil) waits for it
C22_Witness ==
    /\ reg.mountMutex = "sig"
    /\ th.cl["sig"] = "unmount"
    /\ ~reg.currentMountInfo.nil
    /\ th.main = "cli.defer"

IsAttached_Unchecked(loopDev) == FALSE

\* deleteBottle: if loopDev != "" { return errBottleMounted }
IsAttached(loopDev) == loopDev # ""

\* updateDeleteConfirm: "esc" and "n" go back; "y" and "enter" refuse an
\* attached bottle and else hand deleteBottleCmd to a goroutine, whatever
\* m.loading is
DeleteConfirmKey ==
    /\ TuiReady
    /\ tui.state = "viewDeleteConfirm"
    /\ \E key \in {"esc", "n", "y", "enter"} :
        IF key \in {"esc", "n"}
        THEN /\ tui' = [tui EXCEPT !.state = "viewBottleActions"]
             /\ UNCHANGED cf
        ELSE IF findLoopForFile(kernel) # ""
        THEN /\ tui' = [tui EXCEPT !.state = "viewError"]
             /\ UNCHANGED cf
        ELSE /\ tui' = [tui EXCEPT !.loading = TRUE]
             /\ \E t \in DeleteTasks :
                    /\ cf.del[t].pc = "idle"
                    /\ cf' = [cf EXCEPT !.del[t].pc = "check"]
    /\ UNCHANGED <<kernel, mt, um, fs, sv, reg, child, th>>

\* deleteBottle: findLoopForFile(bottle) and the test of its result
DeleteCheck(t) ==
    /\ cf.del[t].pc = "check"
    /\ cf' = IF IsAttached(findLoopForFile(kernel))
             THEN [cf EXCEPT !.del[t] = [pc |-> "ret", ret |-> "errBottleMounted"]]
             ELSE [cf EXCEPT !.del[t].pc = "remove"]
    /\ UNCHANGED <<kernel, mt, um, fs, sv, process>>

\* os.Remove(bottle): it fails when the file is gone, or for another reason
DeleteRemove(t) ==
    /\ cf.del[t].pc = "remove"
    /\ \E ok \in {cf.bottle, FALSE} :
        cf' = IF ok
              THEN [cf EXCEPT !.del[t].pc = "config", !.bottle = FALSE]
              ELSE [cf EXCEPT !.del[t] = [pc |-> "ret", ret |-> "remove"]]
    /\ UNCHANGED <<kernel, mt, um, fs, sv, process>>

\* os.Remove(getConfigPath(bottle)), its error dropped; return nil
DeleteConfig(t) ==
    /\ cf.del[t].pc = "config"
    /\ fs' \in {ConfigRemoved(fs), fs}
    /\ cf' = [cf EXCEPT !.del[t] = [pc |-> "ret", ret |-> "nil"]]
    /\ UNCHANGED <<kernel, mt, um, sv, process>>

\* the command's message: bottleDeletedMsg, or errMsg
OnDeleteReturned(t) ==
    /\ TuiReady
    /\ cf.del[t].pc = "ret"
    /\ tui' = [tui EXCEPT !.loading = FALSE,
                          !.state = IF cf.del[t].ret = "nil" THEN "viewBottleList"
                                    ELSE "viewError"]
    /\ cf' = [cf EXCEPT !.del[t] = DlIdle]
    /\ UNCHANGED <<kernel, mt, um, fs, sv, reg, child, th>>

\* another process attaches the bottle file to a loop device, or detaches it
OtherLosetup ==
    /\ kernel.crypt = ""
    /\ kernel' \in {k \in KernelStates : k.crypt = "" /\ k # kernel}
    /\ UNCHANGED <<mt, um, fs, sv, cf, process>>

InitDelete ==
    /\ kernel \in KernelStates
    /\ mt = [t \in MountTasks |-> MtIdle]
    /\ um = [t \in UmThreads |-> UmIdle]
    /\ fs \in {NoFs, OldFs}
    /\ sv = SvIdle
    /\ cf = [CfIdle EXCEPT !.bottle = TRUE]
    /\ tui = [TuiIdle EXCEPT !.state = "viewDeleteConfirm"]
    /\ reg = RegIdle
    /\ child = ChildNone
    /\ th = [ThOff EXCEPT !.mode = "tui", !.main = "loop", !.sig = "wait"]

NextDelete ==
    \/ DeleteConfirmKey
    \/ \E t \in DeleteTasks : DeleteCheck(t)
    \/ \E t \in DeleteTasks : DeleteRemove(t)
    \/ \E t \in DeleteTasks : DeleteConfig(t)
    \/ \E t \in DeleteTasks : OnDeleteReturned(t)
    \/ OtherLosetup

SpecDelete == InitDelete /\ [][NextDelete]_vars

ParseError(op) ==
    MountError(op, CASE op = "loop-setup" -> <<"could not parse loop device">>
                     [] op = "unlock" -> <<"could not parse cleartext device">>
                     [] OTHER -> <<"could not parse mount point">>)

\* the sequence has returned the parse error of op right after that call
FatalParseError(task, op) ==
    /\ task.pc = "done"
    /\ task.ret = RetErr(ParseError(op))
    /\ task.calls # << >>
    /\ task.calls[Len(task.calls)] = (IF op = "unlock" THEN UnlockForm(task) ELSE op)

\* C25: a successful attach, unlock or mount call whose output the device or
\* path cannot be parsed from makes the mount sequence return a fatal error,
\* with no further call and no value put in its place: after a call that
\* attached, unlocked or mounted, the sequence either holds the device or
\* path the call produced or has returned the parse error of that step, and
\* it is never at a later step, nor has it returned success, with an empty
\* device or path.
C25_UnparseableOutputFatal ==
    [][\A t \in DOMAIN mt :
         LET b == mt'[t] IN
         /\ (kernel.loop = "" /\ kernel'.loop # "" /\ mt'[t] # mt[t]) =>
                \/ b.info.LoopDevice = kernel'.loop /\ b.pc # "done"
                \/ FatalParseError(b, "loop-setup")
         /\ (kernel.crypt = "" /\ kernel'.crypt # "" /\ mt'[t] # mt[t]) =>
                \/ b.info.CleartextDevice = kernel'.crypt /\ b.pc # "done"
                \/ FatalParseError(b, "unlock")
         /\ (kernel.mount = "" /\ kernel'.mount # "" /\ mt'[t] # mt[t]) =>
                \/ b.ret = RetOk(b.info) /\ b.info.MountPoint = kernel'.mount
                \/ FatalParseError(b, "mount")
         /\ b.pc \in {"unlock", "relock", "reunlock"} => b.info.LoopDevice # ""
         /\ b.pc \in {"mount", "remount"} =>
                b.info.LoopDevice # "" /\ b.info.CleartextDevice # ""
         /\ b.ret.kind = "ok" => AlreadyMounted(b.ret.info)]_vars

\* attach and unlock were parsed and the mount succeeded, with an output
\* that names no path: the bottle is mounted and the sequence returned the
\* parse error
C25_Witness ==
    \E t \in MountTasks :
        /\ FatalParseError(mt[t], "mount")
        /\ mt[t].calls = <<"loop-setup", UnlockForm(mt[t]), "mount">>
        /\ kernel.mount # ""

\* C26: a derive call succeeds only when the decoded secret is exactly 32
\* bytes: a response whose last line decodes to fewer or more bytes, that
\* has fewer than 5 lines, or whose last line is not base64, is rejected
\* with an error, and the secret returned is the decoded one, neither cut
\* nor filled up; CreateBottleWithYubiKey given a secret whose length is not
\* 32 is rejected before any file is created.
C26_SecretExactly32Bytes ==
    /\ cf.derived.kind = "ok" =>
          /\ cf.resp.tmpOk /\ cf.resp.runOk
          /\ cf.resp.nlines >= 5
          /\ cf.resp.last.wellFormed
          /\ 3 * cf.resp.last.groups - cf.resp.last.pad = 32
          /\ cf.derived.len = 32
    /\ (cf.pc = "g.done" /\ cf.derived.kind # "ok") => cf.derived.kind = "err"
    /\ cf.secret # 32 =>
          /\ cf.pc \in {"c.start", "c.failed"}
          /\ ~cf.bottle
          /\ fs \in {NoFs, OldFs}
          /\ sv = SvIdle

\* a response of 5 lines whose last line decodes to 33 bytes was rejected
C26_Witness ==
    /\ cf.pc = "g.done"
    /\ cf.resp.tmpOk /\ cf.resp.runOk /\ cf.resp.nlines = 5
    /\ Base64Decode(cf.resp.last) = [ok |-> TRUE, len |-> 33]
    /\ cf.derived = SecretErr("unexpected hmac-secret length")

\* C27: a temporary key file exists only for the single unlock call it was
\* written for and is deleted as soon as that call has returned: none exists
\* while a later step of the mount sequence (the mount call, the recovery's
\* lock, re-unlock and retried mount) is about to run, and none is left when
\* the sequence has returned.
C27_KeyFileOnlyDuringUnlock ==
    \A t \in DOMAIN mt :
        /\ mt[t].pc \in {"mount", "relock", "reunlock", "remount"} => mt[t].keyfiles = 0
        /\ mt[t].pc = "done" => mt[t].keyfiles = 0

(***************************************************************************)
(* The YubiKey unlock view: enumeration, selection, dispatch               *)
(***************************************************************************)
MaxEnumerations == 3
MaxUnlocks == 2

\* the devices that can be plugged in
DevicePaths == <<"/dev/hidraw0", "/dev/hidraw1", "/dev/hidraw2">>

\* what fido2-token -L lists, in its order
DeviceLists ==
    {[i \in 1..Len(ix) |-> DevicePaths[ix[i]]] :
        ix \in {l \in SeqsUpTo(1..Len(DevicePaths), Len(DevicePaths)) :
                    \A i, j \in 1..Len(l) : i < j => l[i] < l[j]}}

\* the device the view marks: the only one, or the one under the cursor
Marked(devs, sel) ==
    IF Len(devs) = 1 THEN devs[1]
    ELSE IF sel < Len(devs) THEN devs[sel + 1]
    ELSE ""

\* an "enter" that takes the first device whatever the cursor
EnterDevice_First(devs, sel) == devs[1]

\* device := m.fido2Devices[m.fido2DeviceSel].Path
EnterDevice(devs, sel) == devs[sel + 1]

\* mountBottleFIDO2Cmd(m.selectedBottle, device, ...) is handed to a goroutine
Dispatched(by, device) ==
    [tui EXCEPT !.loading = TRUE, !.running = @ + 1,
                !.unlocks = Append(@, [device |-> device, by |-> by,
                                       devs |-> tui.fido2Devices,
                                       sel |-> tui.fido2DeviceSel])]

\* updateLaunchConfirm, the FIDO2 branch: to the view, the list emptied,
\* enumerateFIDO2DevicesCmd dispatched
LaunchFIDO2 ==
    /\ TuiReady
    /\ tui.state = "viewLaunchConfirm"
    /\ tui.nenum < MaxEnumerations
    /\ tui' = [tui EXCEPT !.state = "viewFIDO2Unlock", !.fido2Error = FALSE,
                          !.fido2Devices = << >>, !.loading = TRUE,
                          !.enums = @ + 1, !.nenum = @ + 1]
    /\ UNCHANGED th

\* the auto-unlock at the end of updateFIDO2Unlock, reached by the keys
\* that do not return before it
AutoUnlock ==
    IF Len(tui.fido2Devices) = 1 /\ ~tui.fido2Error /\ ~tui.loading
       /\ Len(tui.unlocks) < MaxUnlocks
    THEN tui' = Dispatched("auto", tui.fido2Devices[1]) /\ UNCHANGED th
    ELSE UNCHANGED <<tui, th>>

\* updateFIDO2Unlock on a key; an index out of range panics
FIDO2Key(key) ==
    /\ TuiReady
    /\ tui.state = "viewFIDO2Unlock"
    /\ CASE key = "esc" ->
              /\ tui' = [tui EXCEPT !.fido2Error = FALSE, !.state = "viewLaunchConfirm"]
              /\ UNCHANGED th
         [] key = "r" ->
              /\ tui.nenum < MaxEnumerations
              /\ tui' = [tui EXCEPT !.fido2Error = FALSE, !.loading = TRUE,
                                    !.enums = @ + 1, !.nenum = @ + 1]
              /\ UNCHANGED th
         [] key = "enter" /\ Len(tui.fido2Devices) > 0 ->
              /\ Len(tui.unlocks) < MaxUnlocks
              /\ IF tui.fido2DeviceSel < Len(tui.fido2Devices)
                 THEN /\ tui' = Dispatched("enter", EnterDevice(tui.fido2Devices,
                                                                 tui.fido2DeviceSel))
                      /\ UNCHANGED th
                 ELSE /\ th' = [th EXCEPT !.exit = "panic"]
                      /\ UNCHANGED tui
         [] key = "up" /\ tui.fido2DeviceSel > 0 ->
              /\ tui' = [tui EXCEPT !.fido2DeviceSel = @ - 1]
              /\ UNCHANGED th
         [] key = "down" /\ tui.fido2DeviceSel < Len(tui.fido2Devices) - 1 ->
              /\ tui' = [tui EXCEPT !.fido2DeviceSel = @ + 1]
              /\ UNCHANGED th
         [] OTHER -> AutoUnlock

\* Update, case fido2DevicesMsg: the result of an enumeration
OnFIDO2Devices ==
    /\ TuiReady
    /\ tui.enums > 0
    /\ \E devices \in DeviceLists, err \in BOOLEAN :
        /\ err => devices = << >>
        /\ tui' = [tui EXCEPT !.fido2Devices = devices, !.fido2Error = err,
                              !.loading = FALSE, !.enums = @ - 1]
    /\ UNCHANGED th

\* Update, case fido2UnlockFailedMsg: GetFIDO2Secret or the mount failed
OnFIDO2UnlockFailed ==
    /\ TuiReady
    /\ tui.running > 0
    /\ tui' = [tui EXCEPT !.loading = FALSE, !.fido2Error = TRUE,
                          !.state = "viewFIDO2Unlock", !.running = @ - 1]
    /\ UNCHANGED th

fido2Only == <<kernel, mt, um, fs, sv, cf, reg, child>>

InitFIDO2 ==
    /\ kernel = NoKernel
    /\ mt = [t \in MountTasks |-> MtIdle]
    /\ um = [t \in UmThreads |-> UmIdle]
    /\ fs = NoFs
    /\ sv = SvIdle
    /\ cf = [CfIdle EXCEPT !.p = [defaultPermissions EXCEPT
                                     !.FIDO2BottleID = <<"a">>, !.FIDO2CredentialID = <<"a">>,
                                     !.FIDO2Salt = <<"a">>]]
    /\ tui = TuiIdle
    /\ reg = RegIdle
    /\ child = ChildNone
    /\ th = [ThOff EXCEPT !.mode = "tui", !.main = "loop", !.sig = "wait"]

NextFIDO2 ==
    \/ LaunchFIDO2 /\ UNCHANGED fido2Only
    \/ \E key \in {"esc", "r", "enter", "up", "down", "x"} :
            FIDO2Key(key) /\ UNCHANGED fido2Only
    \/ OnFIDO2Devices /\ UNCHANGED fido2Only
    \/ OnFIDO2UnlockFailed /\ UNCHANGED fido2Only

SpecFIDO2 == InitFIDO2 /\ [][NextFIDO2]_vars

\* C28: in the YubiKey unlock view an enumeration that found no device
\* starts no derive or unlock and can be retried with "r"; one that found
\* more than one device starts a derive/unlock only on "enter", and every
\* unlock is started with the device the view marks in the list it shows.
C28_DeviceSelection ==
    /\ \A i \in 1..Len(tui.unlocks) :
          LET u == tui.unlocks[i] IN
          /\ Len(u.devs) > 0
          /\ Len(u.devs) > 1 => u.by = "enter"
          /\ u.device # ""
          /\ u.device = Marked(u.devs, u.sel)
    /\ (TuiReady /\ tui.state = "viewFIDO2Unlock" /\ tui.fido2Devices = << >>
        /\ tui.nenum < MaxEnumerations) => ENABLED (FIDO2Key("r") /\ UNCHANGED fido2Only)

\* the first enumeration found nothing, the retry found two devices, and
\* "enter" with the cursor on the second started the unlock with it
C28_Witness ==
    /\ tui.nenum = 2
    /\ tui.unlocks = <<[device |-> "/dev/hidraw2", by |-> "enter",
                        devs |-> <<"/dev/hidraw0", "/dev/hidraw2">>, sel |-> 1]>>

\* the process has ended through a quit key, the end of a CLI run or a
\* handled signal
ExitedInOrder == th.exit \in {"0", "signal"} \/ (th.mode = "cli" /\ th.exit = "1")

\* C29: cleanup on exit is automatic: whenever the process has exited
\* through a quit key, the end of the application session, the completion of
\* a CLI run or a handled termination signal, the unmount sequence has been
\* invoked for the bottle this process mounted and had not yet unmounted.
C29_UnmountInvokedBeforeExit ==
    (ExitedInOrder /\ th.ours /\ kernel.mount # "") => th.uminv

\* C30: after a handled termination signal was delivered, every external
\* tool call returning, the cleanup sequence completes and the process
\* exits: the cleanup does not wait for the registry lock for ever against
\* the TUI's or the CLI's control logic.
C30_SignalLeadsToExit == (th.sigch # 0) ~> (th.exit # "none")

\* the handler's cleanup took the lock while `bottle-launch run` was about
\* to clear the registry, unmounted the bottle, and the process ended
C30_Witness ==
    /\ th.exit = "signal"
    /\ th.mode = "cli"
    /\ th.main = "cli.defer"
    /\ th.uminv
    /\ kernel.mount = ""
    /\ reg.mountMutex = "free"

(***************************************************************************)
(* Properties of the TUI's mount failure handling (SpecDispatch)           *)
(***************************************************************************)
\* the event loop takes the mountFailedMsg of goroutine t
FailureDelivered(t) ==
    /\ mt[t].pc = "done" /\ mt[t].ret.kind = "err" /\ mt[t].variant = "password"
    /\ mt'[t].pc = "idle"

Unmounting(t) == um[t].pc # "idle" /\ ~um[t].arg.nil

\* C32: for one mounted bottle the unmount sequence is started at most
\* once: the cleanup of the signal handler and the session's own end (the
\* deferred unmount of cmdRun, the TUI's app-finished and quit handlers)
\* are never both inside udisksUnmountBottle for the same MountInfo.
C32_UnmountStartedOnce ==
    \A a, b \in Threads :
        (a # b /\ Unmounting(a) /\ Unmounting(b)) => um[a].arg # um[b].arg

\* C33: when the mount sequence has returned an error, a loop device this
\* call attached has been detached again: the locator reports the bottle
\* as unattached, as it did before the call, and a delete is not refused.
C33_FailedMountDetaches ==
    \A t \in MountTasks :
        (/\ mt[t].pc = "done" /\ mt[t].ret.kind = "err"
         /\ mt[t].probe0.LoopDevice = ""
         /\ Count(mt[t].calls, {"loop-setup"}) > 0)
            => /\ findLoopForFile(kernel) = mt[t].probe0.LoopDevice
               /\ ~IsAttached(findLoopForFile(kernel))

\* C34: the re-unlock of the stale-mapping recovery classifies a failure
\* exactly as the initial unlock does: a diagnostic with a wrong-credential
\* phrase gives the same recoverable wrong-credential error, any other
\* diagnostic a fatal unlock error with the diagnostic as its text.
C34_ReUnlockClassifiedAlike ==
    \A t \in MountTasks :
        (mt[t].pc = "done" /\ mt[t].ufail.at = "reunlock")
            => mt[t].ret = RetErr(UnlockFailure(mt[t].variant, mt[t].ufail.out))

(***************************************************************************)
(* The YubiKey creation wizard: updateBottleList "y",                      *)
(* updateCreateBottleYubiKey and the wizard's completion messages          *)
(***************************************************************************)
MaxRuns == 2
MaxCommands == 3

\* the wizard's command, handed to a goroutine in wizard run tui.run
Flying(type) == [type |-> type, run |-> tui.run]

WizardDispatched(m, type) ==
    [m EXCEPT !.loading = TRUE, !.flying = @ \cup {Flying(type)}, !.ncmd = @ + 1]

\* updateBottleList, "y": every field of the wizard is reset
WizardOpen ==
    /\ TuiReady
    /\ tui.state = "viewBottleList"
    /\ tui.run < MaxRuns
    /\ tui' = [tui EXCEPT !.fido2Step = 0, !.fido2Name = 0, !.fido2Devices = << >>,
                          !.fido2DeviceSel = 0, !.fido2BottleID = 0, !.fido2CredID = 0,
                          !.fido2Secret = 0, !.fido2Error = FALSE,
                          !.createForm = "normal", !.state = "viewCreateBottleYubiKey",
                          !.run = @ + 1]
    /\ UNCHANGED th

\* "Handle form update in step 0": the form takes the message; completed
\* says whether this key completes it, filled whether name and size are
\* non-empty, checks whether the prerequisites and generateBottleID succeed
WizardForm(completed, filled, checks) ==
    IF tui.fido2Step = 0 /\ tui.createForm # "nil"
    THEN /\ tui.createForm = "normal"
         /\ ~completed => filled /\ checks
         /\ ~filled => checks
         /\ tui' = IF ~completed THEN tui
                   ELSE IF ~filled
                   THEN [tui EXCEPT !.createForm = "completed", !.state = "viewBottleList"]
                   ELSE IF ~checks
                   THEN [tui EXCEPT !.createForm = "completed", !.fido2Name = tui.run,
                                    !.fido2Error = TRUE, !.fido2Step = -1]
                   ELSE [tui EXCEPT !.createForm = "completed", !.fido2Name = tui.run,
                                    !.fido2BottleID = tui.run, !.fido2Step = 1,
                                    !.loading = TRUE, !.enums = @ + 1, !.nenum = @ + 1]
         /\ (completed /\ filled /\ checks) => tui.nenum < MaxEnumerations
         /\ UNCHANGED th
    ELSE /\ completed /\ filled /\ checks
         /\ UNCHANGED <<tui, th>>

\* the command of "enter" in steps 1 to 3; the device argument indexes
\* fido2Devices, and an index out of range panics
WizardEnter(type) ==
    /\ tui.ncmd < MaxCommands
    /\ IF tui.fido2DeviceSel < Len(tui.fido2Devices)
       THEN /\ tui' = [WizardDispatched(tui, type) EXCEPT
                          !.created = IF type = "create"
                                      THEN Append(@, [run |-> tui.run, name |-> tui.fido2Name,
                                                      bottleID |-> tui.fido2BottleID,
                                                      credID |-> tui.fido2CredID,
                                                      secret |-> tui.fido2Secret,
                                                      device |-> EnterDevice(tui.fido2Devices,
                                                                             tui.fido2DeviceSel)])
                                      ELSE @]
            /\ UNCHANGED th
       ELSE /\ th' = [th EXCEPT !.exit = "panic"]
            /\ UNCHANGED tui

\* updateCreateBottleYubiKey on a key
WizardKey(key) ==
    /\ TuiReady
    /\ tui.state = "viewCreateBottleYubiKey"
    /\ CASE key = "esc" /\ tui.fido2Step = 0 /\ tui.createForm = "normal" ->
              tui' = [tui EXCEPT !.state = "viewBottleList"] /\ UNCHANGED th
         [] key = "esc" /\ tui.fido2Step = 4 ->
              tui' = [tui EXCEPT !.state = "viewBottleList"] /\ UNCHANGED th
         [] key = "esc" /\ tui.fido2Step > 0 /\ tui.fido2Step # 4 ->
              /\ tui' = [tui EXCEPT !.fido2Secret = 0, !.state = "viewBottleList"]
              /\ UNCHANGED th
         [] key = "enter" /\ tui.fido2Step = 1 /\ Len(tui.fido2Devices) > 0 ->
              WizardEnter("credential")
         [] key = "enter" /\ tui.fido2Step = 2 -> WizardEnter("secret")
         [] key = "enter" /\ tui.fido2Step = 3 -> WizardEnter("create")
         [] key = "enter" /\ tui.fido2Step = 4 ->
              tui' = [tui EXCEPT !.state = "viewBottleList"] /\ UNCHANGED th
         [] key = "r" /\ tui.fido2Step = 1 /\ Len(tui.fido2Devices) = 0 ->
              /\ tui.nenum < MaxEnumerations
              /\ tui' = [tui EXCEPT !.loading = TRUE, !.enums = @ + 1, !.nenum = @ + 1]
              /\ UNCHANGED th
         [] key = "up" /\ tui.fido2Step = 1 /\ tui.fido2DeviceSel > 0 ->
              tui' = [tui EXCEPT !.fido2DeviceSel = @ - 1] /\ UNCHANGED th
         [] key = "down" /\ tui.fido2Step = 1
                         /\ tui.fido2DeviceSel < Len(tui.fido2Devices) - 1 ->
              tui' = [tui EXCEPT !.fido2DeviceSel = @ + 1] /\ UNCHANGED th
         [] OTHER -> \E completed, filled, checks \in BOOLEAN :
                        WizardForm(completed, filled, checks)

\* Update, case fido2CredentialCreatedMsg
CredentialCreated(m, msg, err) ==
    IF err THEN [m EXCEPT !.loading = FALSE, !.fido2Error = TRUE]
    ELSE [m EXCEPT !.loading = FALSE, !.fido2CredID = msg.run, !.fido2Step = 2,
                   !.fido2Error = FALSE]

\* Update, case fido2SecretReadyMsg
SecretReady(m, msg, err) ==
    IF err THEN [m EXCEPT !.loading = FALSE, !.fido2Error = TRUE]
    ELSE [m EXCEPT !.loading = FALSE, !.fido2Secret = msg.run, !.fido2Step = 3,
                   !.fido2Error = FALSE]

\* Update, case fido2BottleCreatedMsg
BottleCreated(m, msg, err) ==
    IF err THEN [m EXCEPT !.fido2Secret = 0, !.loading = FALSE, !.fido2Error = TRUE]
    ELSE [m EXCEPT !.fido2Secret = 0, !.loading = FALSE, !.fido2Step = 4,
                   !.fido2Error = FALSE]

\* a wizard command has finished and the event loop takes its message, in
\* whatever view the TUI is
OnWizardMsg ==
    /\ TuiReady
    /\ \E msg \in tui.flying, err \in BOOLEAN :
        LET m == [tui EXCEPT !.flying = @ \ {msg}]
        IN  tui' = CASE msg.type = "credential" -> CredentialCreated(m, msg, err)
                     [] msg.type = "secret" -> SecretReady(m, msg, err)
                     [] msg.type = "create" -> BottleCreated(m, msg, err)
    /\ UNCHANGED th

\* Update, case tea.KeyMsg, case "q": the test of m.state
QuitsOnQ(state) == state \notin {"viewPasswordInput", "viewCreateBottle"}

\* the key "q": the global quit, or the key goes on to the view's handler
\* (the password field takes it; the creation form's fields are not part
\* of this model)
QKey ==
    /\ TuiReady
    /\ IF QuitsOnQ(tui.state) THEN QuitKey
       ELSE IF tui.state = "viewPasswordInput"
       THEN \E value \in Passwords : PasswordKey(value)
       ELSE UNCHANGED vars

InitWizard ==
    /\ kernel = NoKernel
    /\ mt = [t \in MountTasks |-> MtIdle]
    /\ um = [t \in UmThreads |-> UmIdle]
    /\ fs = NoFs
    /\ sv = SvIdle
    /\ cf = CfIdle
    /\ tui = [TuiIdle EXCEPT !.state = "viewBottleList"]
    /\ reg = RegIdle
    /\ child = ChildNone
    /\ th = [ThOff EXCEPT !.mode = "tui", !.main = "loop", !.sig = "wait"]

NextWizard ==
    \/ WizardOpen /\ UNCHANGED fido2Only
    \/ \E key \in {"esc", "enter", "r", "up", "down", "x"} :
            WizardKey(key) /\ UNCHANGED fido2Only
    \/ OnFIDO2Devices /\ UNCHANGED fido2Only
    \/ OnWizardMsg /\ UNCHANGED fido2Only
    \/ QKey

SpecWizard == InitWizard /\ [][NextWizard]_vars

(***************************************************************************)
(* Properties of the YubiKey views (SpecWizard, SpecFIDO2)                 *)
(***************************************************************************)
\* C35: the TUI's derived secret is cleared after use: model.fido2Secret is
\* nil whenever the TUI is in a view other than the YubiKey creation
\* wizard, whatever the order of keys and completion messages.
C35_SecretClearedAfterUse ==
    tui.state # "viewCreateBottleYubiKey" => tui.fido2Secret = 0

\* C36: the wizard dispatches the creation command only with a name and
\* size, bottle ID, credential ID, salt and secret of the current run; in
\* steps 2 and 3 the fields these steps use were filled by the same run,
\* and no message of a cancelled or earlier run advanced the step.
C36_WizardRunIntegrity ==
    /\ \A i \in 1..Len(tui.created) :
          LET c == tui.created[i] IN
          c.name = c.run /\ c.bottleID = c.run /\ c.credID = c.run /\ c.secret = c.run
    /\ (tui.state = "viewCreateBottleYubiKey" /\ tui.fido2Step \in {2, 3}) =>
          tui.fido2Name = tui.run /\ tui.fido2BottleID = tui.run /\ tui.fido2CredID = tui.run
    /\ (tui.state = "viewCreateBottleYubiKey" /\ tui.fido2Step = 3) =>
          tui.fido2Secret = tui.run

\* C37: whenever the wizard or the unlock view indexes fido2Devices with
\* fido2DeviceSel the index is in range: no key makes the index expression
\* panic.
C37_DeviceIndexInRange == th.exit # "panic"

(***************************************************************************)
(* The TUI's bottle selection, permissions editor and application selector *)
(***************************************************************************)
MaxAppLoads == 1
MaxEditorSaves == 2

Bottles == {"/b/one.bottle", "/b/two.bottle"}

\* getConfigPath: configDir joined with the hash of the bottle's path
getConfigPath(bottle) == <<"config", bottle, ".conf">>

\* what the config directory may hold for a bottle (the second bottle of
\* these runs has the first or the third of them): nothing, a password
\* bottle's config, a YubiKey bottle's, one with the salt alone, a YubiKey
\* bottle's with a backslash in a field
YubiKeyConfig ==
    File(FormatLines([defaultPermissions EXCEPT !.FIDO2BottleID = <<"a">>,
                         !.FIDO2CredentialID = <<"a">>, !.FIDO2Salt = <<"a">>]))

EditorFiles ==
    {NoFile,
     File(FormatLines(defaultPermissions)),
     YubiKeyConfig,
     File(<< <<"FIDO2_SALT", "=", DQ, "a", DQ>> >>),
     File(<< <<"FIDO2_BOTTLE_ID", "=", DQ, BS, DQ>>, <<"FIDO2_CREDENTIAL_ID", "=", DQ, "a", DQ>>,
             <<"FIDO2_SALT", "=", DQ, "a", DQ>> >>)}

\* the flags whose keys are pressed in these runs, one that is on by
\* default and one that is off
FlagNames == {"Network", "Camera"}

AppIds == {<<"a">>}

\* savePermissions(m.configPath, m.permissions), its error dropped: the
\* file holds the lines, or the save failed and the file is as before
EditorSave(c, ok) ==
    IF ok
    THEN [c EXCEPT !.files[tui.configPath] = File(FormatLines(c.p)), !.saves = @ + 1]
    ELSE [c EXCEPT !.saves = @ + 1]

\* updateBottleList, "enter": the bottle, its config path and its
\* permissions are taken together
SelectBottle(b) ==
    /\ TuiReady
    /\ tui.state = "viewBottleList"
    /\ tui' = [tui EXCEPT !.selectedBottle = b, !.configPath = getConfigPath(b),
                          !.state = "viewBottleActions"]
    /\ cf' = [cf EXCEPT !.p = loadPermissions(cf.files[getConfigPath(b)]),
                        !.from = b,
                        !.orig = loadPermissions(cf.files[getConfigPath(b)])]

\* updateBottleActions
ActionsKey(key) ==
    /\ TuiReady
    /\ tui.state = "viewBottleActions"
    /\ CASE key = "esc" -> tui' = [tui EXCEPT !.state = "viewBottleList"]
         [] key = "l" -> /\ tui.apps < MaxAppLoads
                         /\ tui' = [tui EXCEPT !.loading = TRUE, !.apps = @ + 1]
         [] key = "p" -> tui' = [tui EXCEPT !.state = "viewPermissions"]
    /\ UNCHANGED cf

\* Update, case appsLoadedMsg: to the application selector from any view
OnAppsLoaded ==
    /\ TuiReady
    /\ tui.apps > 0
    /\ tui' = [tui EXCEPT !.apps = @ - 1, !.state = "viewAppSelect", !.loading = FALSE]
    /\ UNCHANGED cf

AppChosen_Fresh(p, id) == [defaultPermissions EXCEPT !.LastApp = id]

\* m.permissions.LastApp = i.app.ID
AppChosen(p, id) == [p EXCEPT !.LastApp = id]

\* updateAppSelect
AppSelectKey(key) ==
    /\ TuiReady
    /\ tui.state = "viewAppSelect"
    /\ CASE key = "esc" -> /\ tui' = [tui EXCEPT !.state = "viewBottleActions"]
                           /\ UNCHANGED cf
         [] key = "enter" ->
              /\ cf.saves < MaxEditorSaves
              /\ tui' = [tui EXCEPT !.state = "viewLaunchConfirm"]
              /\ \E id \in AppIds, ok \in BOOLEAN :
                    cf' = EditorSave([cf EXCEPT !.p = AppChosen(cf.p, id)], ok)

\* updateLaunchConfirm, the keys that lead to the editor and back
LaunchConfirmKey(key) ==
    /\ TuiReady
    /\ tui.state = "viewLaunchConfirm"
    /\ tui.selectedBottle # ""
    /\ CASE key = "esc" -> tui' = [tui EXCEPT !.state = "viewAppSelect"]
         [] key = "p" -> tui' = [tui EXCEPT !.state = "viewPermissions"]
    /\ UNCHANGED cf

\* updatePermissions: a toggle, or "esc"/"enter" that saves and goes back
PermissionsKey(key) ==
    /\ TuiReady
    /\ tui.state = "viewPermissions"
    /\ IF key \in FlagNames
       THEN /\ cf' = [cf EXCEPT !.p[key] = ~@]
            /\ UNCHANGED tui
       ELSE /\ cf.saves < MaxEditorSaves
            /\ tui' = [tui EXCEPT !.state = "viewBottleActions"]
            /\ \E ok \in BOOLEAN : cf' = EditorSave(cf, ok)

editorOnly == <<kernel, mt, um, fs, sv, reg, child, th>>

InitEditor ==
    /\ kernel = NoKernel
    /\ mt = [t \in MountTasks |-> MtIdle]
    /\ um = [t \in UmThreads |-> UmIdle]
    /\ fs = NoFs
    /\ sv = SvIdle
    /\ \E files \in [{getConfigPath(b) : b \in Bottles} -> EditorFiles] :
            /\ files[getConfigPath("/b/two.bottle")] \in {NoFile, YubiKeyConfig}
            /\ cf = [CfIdle EXCEPT !.files = files]
    /\ tui = [TuiIdle EXCEPT !.state = "viewBottleList"]
    /\ reg = RegIdle
    /\ child = ChildNone
    /\ th = [ThOff EXCEPT !.mode = "tui", !.main = "loop", !.sig = "wait"]

NextEditor ==
    \/ \E b \in Bottles : SelectBottle(b) /\ UNCHANGED editorOnly
    \/ \E key \in {"esc", "l", "p"} : ActionsKey(key) /\ UNCHANGED editorOnly
    \/ OnAppsLoaded /\ UNCHANGED editorOnly
    \/ \E key \in {"esc", "enter"} : AppSelectKey(key) /\ UNCHANGED editorOnly
    \/ \E key \in {"esc", "p"} : LaunchConfirmKey(key) /\ UNCHANGED editorOnly
    \/ \E key \in FlagNames \cup {"esc"} : PermissionsKey(key) /\ UNCHANGED editorOnly

SpecEditor == InitEditor /\ [][NextEditor]_vars

FIDO2Fields(p) == <<p.FIDO2BottleID, p.FIDO2CredentialID, p.FIDO2Salt>>

\* C38: a save from the permissions editor or the application selector
\* writes the config of the selected bottle, the one the permissions in
\* memory were loaded from, and no other file; the bottle ID, credential
\* ID and salt it writes are those loaded for that bottle, so that the
\* bottle's credential mode is after the save what it was before.
C38_EditorSaveKeepsCredential ==
    [][cf'.files # cf.files =>
          /\ cf.from \in Bottles /\ tui.selectedBottle = cf.from
          /\ tui.configPath = getConfigPath(cf.from)
          /\ \A path \in DOMAIN cf.files :
                path # getConfigPath(cf.from) => cf'.files[path] = cf.files[path]
          /\ cf'.files[tui.configPath] = File(FormatLines(cf'.p))
          /\ FIDO2Fields(cf'.p) = FIDO2Fields(cf.orig)
          /\ IsFIDO2Bottle(loadPermissions(cf'.files[tui.configPath]))
                = IsFIDO2Bottle(cf.orig)]_vars

\* the second bottle, a YubiKey bottle, was selected after the first; an
\* application was chosen for it and a flag toggled, both saved
C38_Witness ==
    /\ cf.from = "/b/two.bottle"
    /\ cf.saves = 2
    /\ IsFIDO2Bottle(cf.orig).isFIDO2
    /\ cf.p.LastApp # << >>
    /\ cf.p.Camera # cf.orig.Camera
    /\ cf.files[getConfigPath("/b/two.bottle")] = File(FormatLines(cf.p))
    /\ cf.files[getConfigPath("/b/one.bottle")] # cf.files[getConfigPath("/b/two.bottle")]


\* C39: a creation (createBottleBase or CreateBottleWithYubiKey) that fails
\* after the sparse file was made leaves nothing behind: the bottle file is
\* removed, the config written for a YubiKey bottle is removed, and no loop
\* device or mapper it set up is left; a creation that succeeds has released
\* the loop device and the mapper and leaves the file (and the config).
\* The function has returned; the machine has not lost power since.
C39_CreateLeavesNothingBehind ==
    /\ (cf.pc = "c.failed" /\ cf.made /\ sv.pc # "crashed") =>
          /\ ~cf.bottle
          /\ (cf.kind = "yubikey" /\ sv.ret = RetNil) => ReadFile(fs, "cfg") = Absent
          /\ fs.dir.tmp = 0
          /\ kernel = NoKernel
    /\ (cf.pc = "c.done" /\ sv.pc # "crashed") =>
          /\ cf.bottle
          /\ cf.kind = "yubikey" => ReadFile(fs, "cfg") = Content(sv.ver)
          /\ kernel = NoKernel

\* C39 without the release of devices: the files of a failed creation are
\* removed, those of a successful one remain
C39_FilesOnly ==
    /\ (cf.pc = "c.failed" /\ cf.made /\ sv.pc # "crashed") =>
          /\ ~cf.bottle
          /\ (cf.kind = "yubikey" /\ sv.ret = RetNil) => ReadFile(fs, "cfg") = Absent
          /\ fs.dir.tmp = 0
    /\ (cf.pc = "c.done" /\ sv.pc # "crashed") =>
          /\ cf.bottle
          /\ cf.kind = "yubikey" => ReadFile(fs, "cfg") = Content(sv.ver)


\* C40: the key "q" quits except during text input or forms: pressed in the
\* password prompt, the password-bottle creation form or the YubiKey-bottle
\* creation form it does not quit; pressed in any other view it starts the
\* unmount of a held mount (after which the registry is cleared and the
\* program quits) or, with no mount held, quits at once.
C40_QuitKeyOutsideForms ==
    [][QKey =>
          IF tui.state \in {"viewPasswordInput", "viewCreateBottle", "viewCreateBottleYubiKey"}
          THEN th'.main = th.main /\ th'.exit = th.exit /\ tui'.h = "none"
          ELSE IF tui.mountInfo.nil
          THEN th'.main = "exited" /\ th'.exit = "0" /\ reg'.currentMountInfo.nil
          ELSE tui'.h = "quit" /\ um'["main"].arg = tui.mountInfo]_vars

\* C40 for the views other than the three: there the key quits
C40_QuitsElsewhere ==
    [][(QKey /\ tui.state \notin {"viewPasswordInput", "viewCreateBottle", "viewCreateBottleYubiKey"}) =>
          IF tui.mountInfo.nil
          THEN th'.main = "exited" /\ th'.exit = "0" /\ reg'.currentMountInfo.nil
          ELSE tui'.h = "quit" /\ um'["main"].arg = tui.mountInfo]_vars

====
